---- MODULE Spec2Model ----
(***************************************************************************)
(* State-machine model of the playlist backend: the request layer          *)
(* (app.py get_playlist), the source dispatch and Apple strategy cascade   *)
(* (core.py fetch_playlist_tracks_generic,                                 *)
(* fetch_apple_playlist_tracks_from_web), the two caches and the shared    *)
(* browser pool (playwright_pool.py).                                      *)
(*                                                                         *)
(* Every request handler is a coroutine; one action of the model is the    *)
(* code between two suspension points at which shared state is touched.    *)
(* External collaborators (the catalog sites, the browser driver) are      *)
(* nondeterministic choices over the outcomes their callers distinguish.   *)
(***************************************************************************)
EXTENDS Naturals, Integers, FiniteSets, Sequences, TLC

(***************************************************************************)
(* Bounds of the model                                                     *)
(***************************************************************************)
NumReq == 3      \* request slots, i.e. handlers that may be in flight at once
PoolConc == 2    \* handlers in flight at once in SpecPool
MaxTicks == 1    \* number of clock advances
MaxFail == 1     \* browser launches / context creations that may fail
MaxSize == 1     \* capacity of the result cache (maxsize=256 in the code)
MaxLaunch == 2   \* browser launches that may complete
MaxRows == 2     \* track rows a page snapshot may show
MaxLen == 2      \* characters of a track title or ISRC
MaxArtistLen == 1  \* characters of an artist name
MaxLib == 2      \* tracks of a Rekordbox collection
MaxMarkets == 2  \* entries of the SPOTIFY_MARKET setting
MaxPages == 1    \* further pages of a playlist's tracks
MaxLoads == 2    \* library loads one after another
MaxEvents == 21  \* page events during one strategy run
MaxStore == 2    \* capacity of the result cache when it is studied on its own
MaxWrites == 3   \* writes to the result cache when it is studied on its own
MaxSlashes == 1  \* trailing slashes of a playlist url before one more is added
MaxParams == 1   \* query parameters of a playlist url before one more is added
MaxResponses == 3  \* responses that arrive during one strategy run

(***************************************************************************)
(* Program constants                                                       *)
(***************************************************************************)
_TTL_SECONDS == 21600          \* prod TTL of _PLAYLIST_CACHE
WEB_CACHE_TTL == 300           \* TTL of fetch_apple_playlist_tracks_from_web._cache
APPLE_SEM_CAPACITY == 2        \* asyncio.Semaphore(2) created at startup
APPLE_DOM_SCROLL_MAX_ITERS == 12       \* default of the environment variable
APPLE_DOM_SCROLL_STABLE_ROUNDS == 2    \* default of the environment variable
_CACHE_VERSION == "v2"
DIAG_CAP == 20                 \* entries kept of a diagnostic list
XHR_CAP == 10                  \* entries kept of the xhr/fetch request list
APPLE_HTTP_RETRIES == 2        \* default of the environment variable

Reqs == 1..NumReq
Modes == {"auto", "fast", "legacy"}

\* Raw playlist URLs a caller can send: the host and whether a tracking
\* query parameter (si=...) is attached.
RawUrls == {[host |-> "apple", si |-> FALSE], [host |-> "apple", si |-> TRUE],
            [host |-> "spotify", si |-> FALSE]}

\* normalize_playlist_url: tracking parameters are stripped.
normalize_playlist_url(u) == [u EXCEPT !.si = FALSE]

NoUrl == [host |-> "none", si |-> FALSE]
NoParams == [src |-> "none", url |-> NoUrl, mode |-> "none", enrich |-> "", bypass |-> FALSE]
NoResult == [by |-> "none", mode |-> "none", n |-> 0, error |-> FALSE]
\* Local variables of the scrolling loop before its first round
\* (core.py:1050-1060); last and same record the page, not the code: the
\* latest snapshot and for how many rounds in a row it has not changed.
ScrollStart ==
  [i |-> 0, prev_count |-> 0, prev_last_key |-> "None", prev_unique |-> 0,
   unique_keys |-> {}, stable_rounds |-> 0, done |-> FALSE,
   last |-> [count |-> 0, key |-> "None"], same |-> 0]
NoScroll == [ScrollStart EXCEPT !.done = TRUE]
NoKeys == [primary |-> <<>>, fallback |-> <<>>, type |-> "none"]
NoTrack == [title |-> <<>>, artist |-> <<>>, album |-> <<>>, isrc |-> <<"None">>,
            out |-> NoKeys]
NoOwned == [owned |-> FALSE, method |-> "none", score |-> <<0, 1>>, rb_track |-> 0,
            candidates |-> <<>>, scores |-> <<>>, judged |-> FALSE]
NoMatching == [track |-> [title |-> <<>>, artist |-> <<>>, album |-> <<>>,
                          isrc |-> <<"None">>],
               lib |-> <<>>, out |-> [NoOwned EXCEPT !.judged = TRUE]]
NoFetch == [url_or_id |-> <<>>, credentials |-> FALSE, market_env |-> <<>>,
            pc |-> "done", playlist_id |-> <<>>, markets |-> <<>>, m |-> 0,
            results |-> FALSE, items |-> <<>>, last_error |-> 0, pages |-> 0,
            calls |-> <<>>, responses |-> <<>>, outcome |-> "none", message |-> <<>>]
NoAdmit == [url |-> <<>>, source |-> "spotify", pc |-> "done", clean_url |-> <<>>,
            src |-> "none", status |-> 0, sent_to |-> "none"]
NoFile == [size |-> 0, mtime |-> 0, collection |-> FALSE, exists |-> FALSE]
NoLibrary == [via |-> "none", file |-> NoFile, pc |-> "done", parsed |-> FALSE,
              _rekordbox_cache |-> {}, outcome |-> "none", loads |-> 0, failed |-> {}]
NoObjects == [heap |-> <<>>, playlist_cache |-> <<>>, web_cache |-> 0,
              stored |-> <<>>, returned |-> 0]
NoPage == [strategy |-> "none", pc |-> "done", pos |-> 1, listeners |-> FALSE,
           navigated |-> FALSE, heard |-> FALSE, lost |-> FALSE, seen |-> FALSE,
           captured |-> "none", blocked_hint |-> FALSE, rows |-> 0, waited |-> FALSE,
           outcome |-> "none", reason |-> "none", method |-> "none"]
NoLists == [api_candidates |-> 0, response_candidates |-> 0, json_responses_any_domain |-> 0,
            request_candidates |-> 0, xhr_fetch_requests |-> 0, console_errors |-> 0,
            page_errors |-> 0]
NoDiag == [debug |-> FALSE, pc |-> "done", events |-> 0, lists |-> NoLists, meta |-> {}]
NoHttp == [apple |-> FALSE, pc |-> "done", answers |-> <<>>, html |-> "none",
           outcome |-> "none", next |-> "none"]
NoStore == [cache |-> <<>>, writes |-> 0, ticks |-> 0, got |-> NoResult, gone |-> {}]
NoCanon == [urls |-> <<<<>>, <<>>>>, kind |-> "none", done |-> {}, out |-> <<<<>>, <<>>>>,
            keys |-> <<"none", "none">>, again |-> <<<<"none">>, <<"none">>>>]
NoCapture == [handlers |-> <<>>, api_response_captured |-> 0, assigned |-> 0,
              seen_catalog_playlist_api |-> FALSE, lists |-> <<0, 0, 0>>,
              pc |-> "done", body |-> 0]
NoDetail == [used_source |-> "none", reason |-> "none"]
NoError == [reason |-> "none", seen |-> FALSE, blocked |-> FALSE, raised |-> FALSE]

VARIABLES
  nticks,               \* number of clock advances so far
  clock,                \* seconds elapsed since startup
  _PLAYLIST_CACHE,      \* core._PLAYLIST_CACHE: sequence of entries, oldest first
  web_cache,            \* fetch_apple_playlist_tracks_from_web._cache: raw url -> entry
  _pw, _browser, _lock, \* playwright_pool globals (0 = None / unlocked)
  alive,                \* browser processes currently running
  launches, nfail,      \* completed launches; failed launches / context creations
  running,              \* FALSE once the shutdown handler has run
  contexts,             \* open browser contexts: [owner, strat, browser]
  pc, p,                \* per request: position, effective parameters
  strat, attempt, bh,   \* strategy being run, new_context attempt, browser handle
  context,              \* the local variable `context` of the web fetcher
  fast_error, legacy_error,
  result, outcome, cache_hit, served,
  detail,               \* structured detail of the error response (HTTP 400)
  started,              \* strategies this request has started, in order
  scroll,               \* the row-scrolling loop of a strategy: its local variables
  keyed,                \* playlist_result_to_dict on one track: input and keys
  matching,             \* mark_owned_tracks on one track: track, library, verdict
  spfetch,              \* fetch_playlist_tracks: one call of the direct-API fetcher
  admit,               \* get_playlist on one raw url: what the request layer lets through
  library,             \* one load_rekordbox_library_xml call and the module's cache
  objects,             \* result dicts, and the references the two caches hold to them
  page,                \* one run of a browser strategy on its page
  diag,                \* diagnostic lists of a strategy run and the meta it hands out
  http,                \* one fetch_apple_playlist_http_first call and what its caller does next
  store,               \* the result cache on its own: entries, writes, clock advances, last lookup
  canon,               \* normalize_playlist_url on two urls of one playlist, and on its own output
  capture              \* on_response_handler tasks of one strategy run and what they captured

\* State of the service (request layer, caches, pool) and of the component
\* runs that are studied on their own.
serviceVars == <<nticks, clock, _PLAYLIST_CACHE, web_cache, _pw, _browser, _lock, alive,
                 launches, nfail, running, contexts, pc, p, strat, attempt, bh, context,
                 fast_error, legacy_error, result, outcome, detail, cache_hit, served, started>>
auxVars == <<scroll, keyed, matching, spfetch, admit, library, objects, page, diag, http, store, canon, capture>>
vars == <<serviceVars, auxVars>>

poolVars == <<_pw, _browser, _lock, alive, launches, nfail>>
cacheVars == <<_PLAYLIST_CACHE, web_cache>>
timeVars == <<nticks, clock>>

(***************************************************************************)
(* Result cache (cachetools.TTLCache(maxsize, ttl))                        *)
(***************************************************************************)
\* The canonical cache key built by get_playlist.
cache_key(src, nurl, enrich, mode) ==
  IF src = "apple"
  THEN [v |-> _CACHE_VERSION, src |-> src, url |-> nurl, enrich |-> enrich, mode |-> mode]
  ELSE [v |-> _CACHE_VERSION, src |-> src, url |-> nurl, enrich |-> "", mode |-> ""]

KeyOf(q) == cache_key(q.src, normalize_playlist_url(q.url), q.enrich, q.mode)

\* Time is kept relative: every entry carries its age, the seconds since it
\* was stored, and an entry is valid while its age is below the TTL
\* (TTLCache: expires = timer() + ttl, valid while timer() < expires).
Unexpired(cache, ttl) ==
  LET live(e) == e.age < ttl IN SelectSeq(cache, live)

\* TTLCache.get: the value stored under k, or NoResult.
CacheGet(cache, k, ttl) ==
  LET hit(e) == e.key = k /\ e.age < ttl
      hits == SelectSeq(cache, hit)
  IN IF hits = <<>> THEN NoResult ELSE hits[1].res

\* The entries d seconds later.
Aged(cache, d) == [i \in 1..Len(cache) |-> [cache[i] EXCEPT !.age = @ + d]]

\* A new key always pushes the oldest entry out.
TTLCacheSet_AlwaysEvicts(cache, k, res, ttl, maxsize) ==
  LET liveE == Unexpired(cache, ttl)
      other(e) == e.key # k
      rest == SelectSeq(liveE, other)
      present == Len(rest) < Len(liveE)
      kept == IF ~present /\ rest # <<>> THEN Tail(rest) ELSE rest
  IN Append(kept, [key |-> k, res |-> res, age |-> 0])

\* TTLCache.__setitem__: expired entries are purged, a new key evicts the
\* oldest entry when the cache is full, and the entry moves to the newest end.
TTLCacheSet(cache, k, res, ttl, maxsize) ==
  LET liveE == Unexpired(cache, ttl)
      other(e) == e.key # k
      rest == SelectSeq(liveE, other)
      present == Len(rest) < Len(liveE)
      kept == IF ~present /\ Len(liveE) >= maxsize THEN Tail(rest) ELSE rest
  IN Append(kept, [key |-> k, res |-> res, age |-> 0])

\* A write that leaves an earlier entry of the key where it is.
CacheSet_Duplicates(cache, k, res, ttl) ==
  Append(Unexpired(cache, ttl), [key |-> k, res |-> res, age |-> 0])

CacheSet_Lost(cache, k, res, ttl) == Unexpired(cache, ttl)

\* _PLAYLIST_CACHE[cache_key] = result, on a cache of MaxSize entries
CacheSet(cache, k, res, ttl) == TTLCacheSet(cache, k, res, ttl, MaxSize)

NoEntry == [res |-> NoResult, age |-> WEB_CACHE_TTL]

\* `url in cache` on the fetcher's TTLCache.
WebCacheHas(u) == web_cache[u].age < WEB_CACHE_TTL

(***************************************************************************)
(* Initial state: after import and the startup handlers                    *)
(***************************************************************************)
InitService ==
  /\ nticks = 0
  /\ clock = 0
  /\ _PLAYLIST_CACHE = <<>>
  /\ web_cache = [u \in RawUrls |-> NoEntry]
  /\ _pw = FALSE /\ _browser = 0 /\ _lock = 0
  /\ alive = {} /\ launches = 0 /\ nfail = 0
  /\ running = TRUE
  /\ contexts = {}
  /\ pc = [r \in Reqs |-> "idle"]
  /\ p = [r \in Reqs |-> NoParams]
  /\ strat = [r \in Reqs |-> "none"]
  /\ attempt = [r \in Reqs |-> 0]
  /\ bh = [r \in Reqs |-> 0]
  /\ context = [r \in Reqs |-> "none"]
  /\ fast_error = [r \in Reqs |-> NoError]
  /\ legacy_error = [r \in Reqs |-> NoError]
  /\ result = [r \in Reqs |-> NoResult]
  /\ outcome = [r \in Reqs |-> "none"]
  /\ detail = [r \in Reqs |-> NoDetail]
  /\ cache_hit = [r \in Reqs |-> FALSE]
  /\ served = [r \in Reqs |-> "none"]
  /\ started = [r \in Reqs |-> <<>>]

\* No component run is in progress.
InitAux ==
  /\ scroll = NoScroll
  /\ keyed = NoTrack
  /\ matching = NoMatching
  /\ spfetch = NoFetch /\ admit = NoAdmit /\ library = NoLibrary /\ objects = NoObjects /\ page = NoPage /\ diag = NoDiag /\ http = NoHttp /\ store = NoStore /\ canon = NoCanon /\ capture = NoCapture

Init == InitService /\ InitAux

(***************************************************************************)
(* Helpers shared by the request actions                                   *)
(***************************************************************************)
InFlight(r) == pc[r] \notin {"idle", "done"}

\* A finished request is observed in the state in which its handler
\* returns; its slot is recycled (Ack) before anything else happens.
Quiet == \A r \in Reqs : pc[r] # "done"

\* app.py:325 -- the write-back condition of get_playlist.
ShouldStore_AnyCount(bypass, hit, res) == ~bypass /\ ~hit /\ ~res.error

ShouldStore(bypass, hit, res) == ~bypass /\ ~hit /\ ~res.error /\ res.n > 0

\* The open context the local variable `context` of request r refers to.
HeldBy(r, ctxs) == {c \in ctxs : c.owner = r /\ c.strat = context[r]}

\* `if context: await context.close()`
CloseContext(r, ctxs) == ctxs \ HeldBy(r, ctxs)

\* core.py:2090-2102 -- whether the legacy strategy runs after the fast one.
fallback_reasons == {"catalog_api_not_fired", "catalog_api_unparsed",
                     "unsupported_playlist_variant", "blocked_variant",
                     "no_tracks", "no_apple_traffic"}

should_try_legacy(mode, ferr) ==
  \/ mode = "legacy"
  \/ /\ mode = "auto"
     /\ ferr.raised
     /\ (ferr.reason \in fallback_reasons \/ ~ferr.seen)

\* The handler returns a response built from res (app.py:304-356): the
\* result is written back to the result cache when ShouldStore holds.
Respond(r, res, from) ==
  /\ pc' = [pc EXCEPT ![r] = "done"]
  /\ result' = [result EXCEPT ![r] = res]
  /\ outcome' = [outcome EXCEPT ![r] = "ok"]
  /\ detail' = detail
  /\ served' = [served EXCEPT ![r] = from]
  /\ _PLAYLIST_CACHE' =
       IF ShouldStore(p[r].bypass, cache_hit[r], res)
       THEN CacheSet(_PLAYLIST_CACHE, KeyOf(p[r]), res, _TTL_SECONDS)
       ELSE _PLAYLIST_CACHE

\* What the exception that leaves fetch_playlist_tracks_generic carries of
\* the error e raised below it.  For the scrape source every exception of
\* the browser fetcher is replaced by RuntimeError(str(e)) (core.py:2794-2802):
\* the message survives, the meta attribute with its reason does not.  The
\* direct-API fetcher raises plain RuntimeError / ValueError itself.
fetch_failed(src, e) == NoError

\* The detail of the HTTP 400 response for exception e (app.py:357-375):
\* used_source, and the reason found in getattr(e, "meta", {}).
ErrorDetail(src, e) == [used_source |-> src, reason |-> e.reason]

\* The fetch raised e: the handler answers HTTP 400 (app.py:357-375).
Reject(r, e) ==
  /\ pc' = [pc EXCEPT ![r] = "done"]
  /\ result' = [result EXCEPT ![r] = NoResult]
  /\ outcome' = [outcome EXCEPT ![r] = "error"]
  /\ detail' = [detail EXCEPT ![r] = ErrorDetail(p[r].src, fetch_failed(p[r].src, e))]
  /\ served' = [served EXCEPT ![r] = "none"]
  /\ _PLAYLIST_CACHE' = _PLAYLIST_CACHE

(***************************************************************************)
(* get_playlist up to its first suspension point (app.py:259-302)          *)
(***************************************************************************)
StartIn(r, lim, source, url, apple_mode, enrich_spotify, refresh) ==
  /\ Quiet
  /\ UNCHANGED auxVars
  /\ running
  /\ r <= lim
  /\ pc[r] = "idle"
  /\ \A s \in Reqs : s < r => InFlight(s)
  /\ LET src == IF url.host = "apple" THEN "apple" ELSE source
         mode == IF src # "apple" THEN "auto" ELSE apple_mode
         eff == IF src = "apple" THEN (IF enrich_spotify = "1" THEN "1" ELSE "0") ELSE ""
         bypass == (refresh = 1)
         q == [src |-> src, url |-> url, mode |-> mode, enrich |-> eff, bypass |-> bypass]
         cached == IF bypass THEN NoResult ELSE CacheGet(_PLAYLIST_CACHE, KeyOf(q), _TTL_SECONDS)
         hit == cached # NoResult
     IN /\ p' = [p EXCEPT ![r] = q]
        /\ cache_hit' = [cache_hit EXCEPT ![r] = hit]
        /\ strat' = [strat EXCEPT ![r] = "none"]
        /\ attempt' = [attempt EXCEPT ![r] = 0]
        /\ bh' = [bh EXCEPT ![r] = 0]
        /\ context' = [context EXCEPT ![r] = "none"]
        /\ fast_error' = [fast_error EXCEPT ![r] = NoError]
        /\ legacy_error' = [legacy_error EXCEPT ![r] = NoError]
        /\ started' = [started EXCEPT ![r] = <<>>]
        /\ result' = [result EXCEPT ![r] = cached]
        /\ outcome' = [outcome EXCEPT ![r] = IF hit THEN "ok" ELSE "none"]
        /\ detail' = [detail EXCEPT ![r] = NoDetail]
        /\ served' = [served EXCEPT ![r] = IF hit THEN "result_cache" ELSE "none"]
        /\ pc' = [pc EXCEPT ![r] = IF hit THEN "done"
                                   ELSE IF src = "apple" THEN "http" ELSE "spotify"]
  /\ UNCHANGED <<cacheVars, poolVars, timeVars, running, contexts>>

(***************************************************************************)
(* fetch_playlist_tracks_generic (core.py:2753-2858)                       *)
(***************************************************************************)
\* Direct-API source: fetch_playlist_tracks runs in a worker thread.
SpotifyFetch(r) ==
  /\ Quiet
  /\ UNCHANGED auxVars
  /\ pc[r] = "spotify"
  /\ started' = [started EXCEPT ![r] = Append(@, "api")]
  /\ \/ \E n \in {0, 1} :
          Respond(r, [by |-> "api", mode |-> "none", n |-> n, error |-> FALSE], "api")
     \/ Reject(r, NoError)
  /\ UNCHANGED <<web_cache, poolVars, timeVars, running, contexts, p, strat, attempt,
                 bh, context, fast_error, legacy_error, cache_hit>>

\* HTTP-first attempt (core.py:2783-2790): always made for the scrape source.
HttpFirst(r) ==
  /\ Quiet
  /\ UNCHANGED auxVars
  /\ pc[r] = "http"
  /\ started' = [started EXCEPT ![r] = Append(@, "http_first")]
  /\ \/ /\ p[r].url.host = "apple"
        /\ Respond(r, [by |-> "http_first", mode |-> "none", n |-> 1, error |-> FALSE],
                   "http_first")
     \/ /\ pc' = [pc EXCEPT ![r] = "web"]
        /\ UNCHANGED <<result, outcome, detail, served, _PLAYLIST_CACHE>>
  /\ UNCHANGED <<web_cache, poolVars, timeVars, running, contexts, p, strat, attempt,
                 bh, context, fast_error, legacy_error, cache_hit>>

first_strategy_LegacyOnAuto(mode) == IF mode = "fast" THEN "fast" ELSE "legacy"

\* core.py:2074 and 2090: the fast strategy goes first unless the mode is
\* legacy.
first_strategy(mode) == IF mode \in {"auto", "fast"} THEN "fast" ELSE "legacy"

\* Entry of fetch_apple_playlist_tracks_from_web (core.py:713-745): URL
\* check, the URL-keyed cache, then the first strategy for the mode.
EnterWeb(r) ==
  /\ Quiet
  /\ UNCHANGED auxVars
  /\ pc[r] = "web"
  /\ IF p[r].url.host # "apple"
     THEN /\ Reject(r, NoError)
          /\ UNCHANGED <<strat, attempt, started>>
     ELSE IF WebCacheHas(p[r].url) /\ p[r].mode # "legacy"
     THEN /\ Respond(r, web_cache[p[r].url].res, "web_cache")
          /\ UNCHANGED <<strat, attempt, started>>
     ELSE /\ strat' = [strat EXCEPT ![r] = first_strategy(p[r].mode)]
          /\ attempt' = [attempt EXCEPT ![r] = 1]
          /\ started' = [started EXCEPT ![r] =
                         Append(@, IF first_strategy(p[r].mode) = "fast"
                                   THEN "browser_fast" ELSE "browser_legacy")]
          /\ pc' = [pc EXCEPT ![r] = "gb"]
          /\ UNCHANGED <<result, outcome, detail, served, _PLAYLIST_CACHE>>
  /\ UNCHANGED <<web_cache, poolVars, timeVars, running, contexts, p, bh, context,
                 fast_error, legacy_error, cache_hit>>

(***************************************************************************)
(* fetch_apple_playlist_tracks_from_web: the strategy cascade              *)
(***************************************************************************)
CloseInHandler_Skipped(r, ctxs) == ctxs

\* core.py:2082-2088 -- the fast strategy raised AppleFetchError: its
\* context is closed before anything else happens.
CloseInHandler(r, ctxs) == CloseContext(r, ctxs)

CloseInFinally_Skipped(r, ctxs) == ctxs

\* core.py:2121-2126 -- the finally block of the web fetcher.
CloseInFinally(r, ctxs) == CloseContext(r, ctxs)

\* core.py:948-959 / 1560-1571 -- page creation failed: close, then raise.
CloseOnPageFailure(r, ctxs) == CloseContext(r, ctxs)

\* The running strategy raised AppleFetchError(reason); ctxs are the open
\* contexts at that moment (core.py:2070-2126, then 2799-2802 and app.py:357).
Raised(r, reason, seen, blocked, ctxs) ==
  LET e == [reason |-> reason, seen |-> seen, blocked |-> blocked, raised |-> TRUE] IN
  IF strat[r] = "fast"
  THEN /\ fast_error' = [fast_error EXCEPT ![r] = e]
       /\ legacy_error' = legacy_error
       /\ context' = [context EXCEPT ![r] = "none"]
       /\ contexts' = CloseInHandler(r, ctxs)
       /\ IF should_try_legacy(p[r].mode, e)
          THEN /\ strat' = [strat EXCEPT ![r] = "legacy"]
               /\ attempt' = [attempt EXCEPT ![r] = 1]
               /\ started' = [started EXCEPT ![r] = Append(@, "browser_legacy")]
               /\ pc' = [pc EXCEPT ![r] = "gb"]
               /\ UNCHANGED <<result, outcome, detail, served, _PLAYLIST_CACHE>>
          ELSE /\ Reject(r, e)
               /\ UNCHANGED <<strat, attempt, started>>
  ELSE /\ legacy_error' = [legacy_error EXCEPT ![r] = e]
       /\ fast_error' = fast_error
       /\ contexts' = CloseInFinally(r, ctxs)
       /\ Reject(r, e)
       /\ UNCHANGED <<context, strat, attempt, started>>

\* An exception that is not an AppleFetchError (a driver error, a navigation
\* timeout) leaves the web fetcher through its finally block.
Crashed(r, ctxs) ==
  /\ contexts' = CloseInFinally(r, ctxs)
  /\ Reject(r, NoError)
  /\ UNCHANGED <<context, strat, attempt, started, fast_error, legacy_error>>

\* A strategy returned res: `return` inside the try, then the finally block.
Returned(r, res) ==
  /\ contexts' = CloseInFinally(r, contexts)
  /\ Respond(r, res, IF strat[r] = "fast" THEN "browser_fast" ELSE "browser_legacy")
  /\ UNCHANGED <<context, strat, attempt, started, fast_error, legacy_error>>

(***************************************************************************)
(* playwright_pool: get_browser / new_context                              *)
(***************************************************************************)
Waiters == {r \in Reqs : pc[r] = "lockwait"}

\* _reset_browser_globals plus the retry policy of new_context
\* (playwright_pool.py:43-66, 107-120): the first failure resets the pool
\* and tries again, the second one is raised to the strategy.
CreateFailed(r, lk) ==
  /\ _lock' = lk
  /\ launches' = launches
  /\ IF attempt[r] = 1
     THEN /\ _pw' = FALSE
          /\ _browser' = 0
          /\ alive' = alive \ {_browser}
          /\ contexts' = {c \in contexts : c.browser # _browser}
          /\ attempt' = [attempt EXCEPT ![r] = 2]
          /\ pc' = [pc EXCEPT ![r] = "gb"]
          /\ UNCHANGED <<result, outcome, detail, served, _PLAYLIST_CACHE, context,
                         fast_error, legacy_error, strat, started>>
     ELSE /\ UNCHANGED <<_pw, _browser, alive>>
          /\ Raised(r, "context_creation_failed", FALSE, FALSE, contexts)

GetBrowser_Unlocked(r) ==
  /\ Quiet
  /\ UNCHANGED auxVars
  /\ pc[r] = "gb"
  /\ IF _browser # 0
     THEN /\ bh' = [bh EXCEPT ![r] = _browser]
          /\ pc' = [pc EXCEPT ![r] = "nc"]
     ELSE /\ pc' = [pc EXCEPT ![r] = "starting"]
          /\ bh' = bh
  /\ UNCHANGED <<cacheVars, timeVars, running, contexts, p, strat, attempt, context,
                 fast_error, legacy_error, result, outcome, detail, cache_hit, served, started,
                 _pw, _browser, _lock, alive, launches, nfail>>

\* get_browser up to its first suspension (playwright_pool.py:22-31).
GetBrowser(r) ==
  /\ Quiet
  /\ UNCHANGED auxVars
  /\ pc[r] = "gb"
  /\ IF _browser # 0
     THEN /\ bh' = [bh EXCEPT ![r] = _browser]
          /\ pc' = [pc EXCEPT ![r] = "nc"]
          /\ _lock' = _lock
     ELSE IF _lock = 0 /\ Waiters = {}
     THEN /\ _lock' = r
          /\ pc' = [pc EXCEPT ![r] = "starting"]
          /\ bh' = bh
     ELSE /\ pc' = [pc EXCEPT ![r] = "lockwait"]
          /\ UNCHANGED <<_lock, bh>>
  /\ UNCHANGED <<cacheVars, timeVars, running, contexts, p, strat, attempt, context,
                 fast_error, legacy_error, result, outcome, detail, cache_hit, served, started,
                 _pw, _browser, alive, launches, nfail>>

\* The lock is granted to a waiter, which re-checks _browser (lines 28-31).
LockGranted(r) ==
  /\ Quiet
  /\ UNCHANGED auxVars
  /\ pc[r] = "lockwait"
  /\ _lock = 0
  /\ IF _browser # 0
     THEN /\ bh' = [bh EXCEPT ![r] = _browser]
          /\ pc' = [pc EXCEPT ![r] = "nc"]
          /\ _lock' = _lock
     ELSE /\ _lock' = r
          /\ pc' = [pc EXCEPT ![r] = "starting"]
          /\ bh' = bh
  /\ UNCHANGED <<cacheVars, timeVars, running, contexts, p, strat, attempt, context,
                 fast_error, legacy_error, result, outcome, detail, cache_hit, served, started,
                 _pw, _browser, alive, launches, nfail>>

\* _pw = await async_playwright().start()  (line 32)
PwStart(r) ==
  /\ Quiet
  /\ UNCHANGED auxVars
  /\ pc[r] = "starting"
  /\ _pw' = TRUE
  /\ pc' = [pc EXCEPT ![r] = "launching"]
  /\ UNCHANGED <<cacheVars, timeVars, running, contexts, p, strat, attempt, bh, context,
                 fast_error, legacy_error, result, outcome, detail, cache_hit, served, started,
                 _browser, _lock, alive, launches, nfail>>

\* _browser = await _pw.chromium.launch(...)  (lines 34-36)
Launch(r) ==
  /\ Quiet
  /\ UNCHANGED auxVars
  /\ pc[r] = "launching"
  /\ _pw
  /\ launches < MaxLaunch
  /\ launches' = launches + 1
  /\ _browser' = launches + 1
  /\ alive' = alive \cup {launches + 1}
  /\ _lock' = 0
  /\ bh' = [bh EXCEPT ![r] = launches + 1]
  /\ pc' = [pc EXCEPT ![r] = "nc"]
  /\ UNCHANGED <<cacheVars, timeVars, running, contexts, p, strat, attempt, context,
                 fast_error, legacy_error, result, outcome, detail, cache_hit, served, started,
                 _pw, nfail>>

\* The launch raises: spontaneously, or because the driver was stopped by a
\* reset meanwhile.  The lock is released by `async with`.
LaunchFails(r) ==
  /\ Quiet
  /\ UNCHANGED auxVars
  /\ pc[r] = "launching"
  /\ IF _pw THEN nfail < MaxFail /\ nfail' = nfail + 1 ELSE nfail' = nfail
  /\ CreateFailed(r, 0)
  /\ UNCHANGED <<web_cache, timeVars, running, p, bh, cache_hit>>

\* ctx = await browser.new_context(...)  (lines 95-105)
NewContext(r) ==
  /\ Quiet
  /\ UNCHANGED auxVars
  /\ pc[r] = "nc"
  /\ bh[r] \in alive
  /\ contexts' = contexts \cup {[owner |-> r, strat |-> strat[r], browser |-> bh[r]]}
  /\ context' = [context EXCEPT ![r] = strat[r]]
  /\ pc' = [pc EXCEPT ![r] = "page"]
  /\ UNCHANGED <<cacheVars, timeVars, running, p, strat, attempt, bh,
                 fast_error, legacy_error, result, outcome, detail, cache_hit, served, started,
                 poolVars>>

\* browser.new_context raises: spontaneously, or because the browser behind
\* the handle has been closed.
NewContextFails(r) ==
  /\ Quiet
  /\ UNCHANGED auxVars
  /\ pc[r] = "nc"
  /\ IF bh[r] \in alive THEN nfail < MaxFail /\ nfail' = nfail + 1 ELSE nfail' = nfail
  /\ CreateFailed(r, _lock)
  /\ UNCHANGED <<web_cache, timeVars, running, p, bh, cache_hit>>

(***************************************************************************)
(* run_fast_playwright / run_legacy_playwright after the context exists    *)
(***************************************************************************)
ContextOpen(r) == HeldBy(r, contexts) # {}

\* page = await context.new_page()  (core.py:948-959, 1560-1571)
NewPage(r) ==
  /\ Quiet
  /\ UNCHANGED auxVars
  /\ pc[r] = "page"
  /\ ContextOpen(r)
  /\ pc' = [pc EXCEPT ![r] = "run"]
  /\ UNCHANGED <<cacheVars, timeVars, running, contexts, p, strat, attempt, bh, context,
                 fast_error, legacy_error, result, outcome, detail, cache_hit, served, started,
                 poolVars>>

NewPageFails(r) ==
  /\ Quiet
  /\ UNCHANGED auxVars
  /\ pc[r] = "page"
  /\ Raised(r, "page_creation_failed", FALSE, FALSE, CloseOnPageFailure(r, contexts))
  /\ UNCHANGED <<web_cache, timeVars, running, p, bh, cache_hit, poolVars>>

\* Reasons an AppleFetchError raised by the page work of a strategy carries
\* (core.py:995-1017 and 1338-1341 for fast, 1601-1622 and 1925-1982 for
\* legacy), with the seen_catalog_playlist_api and blocked_hint flags of its
\* meta.  The fast strategy raises at line 1341 with no reason, also on a
\* page its detection (1222-1246) flagged as blocked: the statements after
\* that raise which would name a reason (1354-1441) are never reached.
FastReasons == {[reason |-> "http_status", seen |-> FALSE, blocked |-> FALSE],
                [reason |-> "none", seen |-> FALSE, blocked |-> FALSE],
                [reason |-> "none", seen |-> FALSE, blocked |-> TRUE]}
LegacyReasons == {[reason |-> "http_status", seen |-> FALSE, blocked |-> FALSE],
                  [reason |-> "no_dom_rows_no_api", seen |-> FALSE, blocked |-> FALSE],
                  [reason |-> "api_not_parseable", seen |-> TRUE, blocked |-> FALSE],
                  [reason |-> "no_apple_api_detected", seen |-> TRUE, blocked |-> FALSE]}

StrategyResult(r, n) ==
  [by |-> IF strat[r] = "fast" THEN "browser_fast" ELSE "browser_legacy",
   mode |-> p[r].mode, n |-> n, error |-> FALSE]

\* At least five DOM rows: returned at once, not stored in the URL-keyed
\* cache (core.py:1287-1297, 1860-1874).
RunDomGood(r) ==
  /\ Quiet
  /\ UNCHANGED auxVars
  /\ pc[r] = "run"
  /\ ContextOpen(r)
  /\ Returned(r, StrategyResult(r, 5))
  /\ UNCHANGED <<web_cache, timeVars, running, p, bh, cache_hit, poolVars>>

\* A result from the captured API response or from fewer DOM rows: stored
\* under the URL, then returned (core.py:1443-1527, 1984-2068).
RunStored(r) ==
  /\ Quiet
  /\ UNCHANGED auxVars
  /\ pc[r] = "run"
  /\ ContextOpen(r)
  /\ web_cache' = [web_cache EXCEPT ![p[r].url] =
                     [res |-> StrategyResult(r, 1), age |-> 0]]
  /\ Returned(r, StrategyResult(r, 1))
  /\ UNCHANGED <<timeVars, running, p, bh, cache_hit, poolVars>>

RunRaises(r) ==
  /\ Quiet
  /\ UNCHANGED auxVars
  /\ pc[r] = "run"
  /\ ContextOpen(r)
  /\ \E e \in (IF strat[r] = "fast" THEN FastReasons ELSE LegacyReasons) :
        Raised(r, e.reason, e.seen, e.blocked, contexts)
  /\ UNCHANGED <<web_cache, timeVars, running, p, bh, cache_hit, poolVars>>

\* A page operation raises something else (navigation timeout, target closed).
RunCrashes(r) ==
  /\ Quiet
  /\ UNCHANGED auxVars
  /\ pc[r] \in {"page", "run"}
  /\ pc[r] = "page" => ~ContextOpen(r)
  /\ Crashed(r, contexts)
  /\ UNCHANGED <<web_cache, timeVars, running, p, bh, cache_hit, poolVars>>

\* asyncio.wait_for(..., APPLE_PLAYWRIGHT_TIMEOUT_S) cancels the web fetcher
\* at its current suspension point (core.py:2794-2800).
WebPcs == {"gb", "lockwait", "starting", "launching", "nc", "page", "run"}

Cancel(r) ==
  /\ Quiet
  /\ UNCHANGED auxVars
  /\ pc[r] \in WebPcs
  /\ _lock' = IF _lock = r THEN 0 ELSE _lock
  /\ Crashed(r, contexts)
  /\ UNCHANGED <<web_cache, timeVars, running, p, bh, cache_hit,
                 _pw, _browser, alive, launches, nfail>>

(***************************************************************************)
(* Environment: time and shutdown                                          *)
(***************************************************************************)
Tick(d) ==
  /\ Quiet
  /\ UNCHANGED auxVars
  /\ nticks < MaxTicks
  /\ nticks' = nticks + 1
  /\ clock' = clock + d
  \* expired entries are invisible to every cache operation: drop them here
  /\ _PLAYLIST_CACHE' = Unexpired(Aged(_PLAYLIST_CACHE, d), _TTL_SECONDS)
  /\ web_cache' = [u \in RawUrls |->
                     IF web_cache[u].age + d < WEB_CACHE_TTL
                     THEN [web_cache[u] EXCEPT !.age = @ + d] ELSE NoEntry]
  /\ UNCHANGED <<poolVars, running, contexts, pc, p, strat, attempt, bh, context,
                 fast_error, legacy_error, result, outcome, detail, cache_hit, served, started>>

\* _shutdown_playwright_state -> close_browser (playwright_pool.py:123-142)
Shutdown ==
  /\ Quiet
  /\ UNCHANGED auxVars
  /\ running
  /\ _lock = 0
  /\ running' = FALSE
  /\ alive' = alive \ {_browser}
  /\ contexts' = {c \in contexts : c.browser # _browser}
  /\ _browser' = 0
  /\ _pw' = FALSE
  /\ UNCHANGED <<cacheVars, timeVars, _lock, launches, nfail, pc, p, strat, attempt, bh,
                 context, fast_error, legacy_error, result, outcome, detail, cache_hit, served,
                 started>>

\* The response has been sent: the handler's frame is gone.
Ack(r) ==
  /\ pc[r] = "done"
  /\ UNCHANGED auxVars
  /\ pc' = [pc EXCEPT ![r] = "idle"]
  /\ p' = [p EXCEPT ![r] = NoParams]
  /\ strat' = [strat EXCEPT ![r] = "none"]
  /\ attempt' = [attempt EXCEPT ![r] = 0]
  /\ bh' = [bh EXCEPT ![r] = 0]
  /\ context' = [context EXCEPT ![r] = "none"]
  /\ fast_error' = [fast_error EXCEPT ![r] = NoError]
  /\ legacy_error' = [legacy_error EXCEPT ![r] = NoError]
  /\ result' = [result EXCEPT ![r] = NoResult]
  /\ outcome' = [outcome EXCEPT ![r] = "none"]
  /\ detail' = [detail EXCEPT ![r] = NoDetail]
  /\ cache_hit' = [cache_hit EXCEPT ![r] = FALSE]
  /\ served' = [served EXCEPT ![r] = "none"]
  /\ started' = [started EXCEPT ![r] = <<>>]
  /\ UNCHANGED <<cacheVars, poolVars, timeVars, running, contexts>>

(***************************************************************************)
(* Specifications                                                          *)
(***************************************************************************)
\* The steps of a request in which every external call behaves: the page
\* work of a strategy may still find nothing or raise.
Step(r) ==
  \/ HttpFirst(r)
  \/ EnterWeb(r)
  \/ GetBrowser(r)
  \/ PwStart(r)
  \/ Launch(r)
  \/ NewContext(r)
  \/ NewPage(r)
  \/ RunDomGood(r)
  \/ RunStored(r)
  \/ RunRaises(r)
  \/ RunCrashes(r)

\* The steps of a request as the browser pool sees them: the page work of a
\* strategy ends with a result or with the page failing.
PoolStep(r) ==
  \/ HttpFirst(r)
  \/ EnterWeb(r)
  \/ GetBrowser(r)
  \/ PwStart(r)
  \/ Launch(r)
  \/ NewContext(r)
  \/ NewPage(r)
  \/ RunDomGood(r)
  \/ RunCrashes(r)

\* The steps in which the browser driver fails or the fetch is cancelled.
Fault(r) ==
  \/ LaunchFails(r)
  \/ NewContextFails(r)
  \/ NewPageFails(r)
  \/ Cancel(r)

AppleUrl == [host |-> "apple", si |-> FALSE]
SpotifyUrl == [host |-> "spotify", si |-> FALSE]
TrackedUrl == [host |-> "apple", si |-> TRUE]

\* Requests a caller can send (query parameters of /api/playlist).
Inputs ==
  [source : {"spotify"}, url : {AppleUrl}, apple_mode : Modes,
   enrich_spotify : {"None"}, refresh : {0}]
  \cup [source : {"spotify"}, url : {AppleUrl}, apple_mode : {"auto"},
        enrich_spotify : {"None"}, refresh : {1}]
  \cup [source : {"apple"}, url : {AppleUrl}, apple_mode : {"auto"},
        enrich_spotify : {"1"}, refresh : {0}]
  \cup [source : {"spotify"}, url : {SpotifyUrl}, apple_mode : {"auto"},
        enrich_spotify : {"None"}, refresh : {0, 1}]
  \cup [source : {"apple"}, url : {SpotifyUrl}, apple_mode : {"auto"},
        enrich_spotify : {"None"}, refresh : {0}]
  \cup [source : {"apple"}, url : {TrackedUrl}, apple_mode : {"auto"},
        enrich_spotify : {"None"}, refresh : {0}]

\* Scrape requests that bypass the result cache, one per mode.
WebInputs ==
  [source : {"apple"}, url : {AppleUrl}, apple_mode : Modes,
   enrich_spotify : {"None"}, refresh : {1}]

FastInputs == {i \in WebInputs : i.apple_mode = "fast"}

\* A scrape request and a direct-API (Spotify) request.
PoolInputs ==
  FastInputs \cup [source : {"spotify"}, url : {SpotifyUrl}, apple_mode : {"auto"},
                   enrich_spotify : {"None"}, refresh : {1}]

Start(r, lim, ins) ==
  \E i \in ins :
     StartIn(r, lim, i.source, i.url, i.apple_mode, i.enrich_spotify, i.refresh)

\* Cache layer: requests one after another, every kind of request, time.
Next ==
  \/ \E r \in Reqs : Start(r, 1, Inputs)
  \/ \E r \in Reqs : SpotifyFetch(r)
  \/ \E r \in Reqs : Step(r)
  \/ \E d \in {WEB_CACHE_TTL, _TTL_SECONDS} : Tick(d)
  \/ \E r \in Reqs : Ack(r)

Spec == Init /\ [][Next]_vars

\* Cascade: one scrape request at a time, with driver faults, cancellation
\* by the fetch timeout, and shutdown.
NextWeb ==
  \/ \E r \in Reqs : Start(r, 1, WebInputs)
  \/ \E r \in Reqs : Step(r)
  \/ \E r \in Reqs : Fault(r)
  \/ Tick(WEB_CACHE_TTL)
  \/ Shutdown
  \/ \E r \in Reqs : Ack(r)

SpecWeb == Init /\ [][NextWeb]_vars

\* Browser pool: concurrent scrape requests, driver faults, cancellation
\* and shutdown.
NextPool ==
  \/ \E r \in Reqs : Start(r, PoolConc, PoolInputs)
  \/ \E r \in Reqs : SpotifyFetch(r)
  \/ \E r \in Reqs : PoolStep(r)
  \/ \E r \in Reqs : LockGranted(r)
  \/ \E r \in Reqs : Fault(r)
  \/ Shutdown
  \/ \E r \in Reqs : Ack(r)

SpecPool == Init /\ [][NextPool]_vars

\* Concurrency gate: as many scrape requests as there are slots.
NextGate ==
  \/ \E r \in Reqs : Start(r, NumReq, FastInputs)
  \/ \E r \in Reqs : Step(r)
  \/ \E r \in Reqs : LockGranted(r)
  \/ \E r \in Reqs : Ack(r)

SpecGate == Init /\ [][NextGate]_vars

(***************************************************************************)
(* Properties of the result cache (specification Spec)                     *)
(***************************************************************************)
\* C1 -- cache isolation: a scrape request is never answered with a result
\* that was produced for another extraction mode, whichever cache it came
\* from.  (Results of the HTTP-first parser carry no mode.)
C1_CacheIsolation ==
  \A r \in Reqs :
     (pc[r] = "done" /\ outcome[r] = "ok" /\ p[r].src = "apple"
        /\ result[r].mode # "none")
     => result[r].mode = p[r].mode

\* C2 -- no negative caching: every entry of the result cache holds an
\* error-free result with at least one track; the entries change only when
\* time passes or when a request that missed, without refresh, completes
\* with such a result; a fetch that fails or yields no track leaves the
\* cache as it was, with no entry under the request's key.
C2_NoNegativeCaching ==
  [][ /\ \A i \in 1..Len(_PLAYLIST_CACHE') :
           ~_PLAYLIST_CACHE'[i].res.error /\ _PLAYLIST_CACHE'[i].res.n > 0
      /\ _PLAYLIST_CACHE' # _PLAYLIST_CACHE =>
           \/ clock' # clock
           \/ \E r \in Reqs :
                 /\ pc[r] # "done" /\ pc'[r] = "done"
                 /\ ~p'[r].bypass /\ ~cache_hit'[r]
                 /\ outcome'[r] = "ok" /\ ~result'[r].error /\ result'[r].n > 0
      /\ \A r \in Reqs :
           (/\ pc[r] # "done" /\ pc'[r] = "done" /\ ~cache_hit'[r]
            /\ (outcome'[r] = "error" \/ result'[r].error \/ result'[r].n = 0))
           => /\ _PLAYLIST_CACHE' = _PLAYLIST_CACHE
              /\ ~p'[r].bypass =>
                   CacheGet(_PLAYLIST_CACHE', KeyOf(p'[r]), _TTL_SECONDS) = NoResult
    ]_vars

\* A request without refresh came back with no track, or failed, while the
\* cache holds an entry of an earlier request.
C2_Witness ==
  \E r \in Reqs :
     /\ pc[r] = "done" /\ ~p[r].bypass /\ ~cache_hit[r]
     /\ (outcome[r] = "error" \/ result[r].n = 0)
     /\ Len(_PLAYLIST_CACHE) > 0

\* C3 as stated -- after a request has succeeded with a non-empty result the
\* cache answers its key: the next request for it, made at once and without
\* refresh, would be a hit.
C3_AsStated ==
  \A r \in Reqs :
     (pc[r] = "done" /\ outcome[r] = "ok" /\ result[r].n > 0)
     => CacheGet(_PLAYLIST_CACHE, KeyOf(p[r]), _TTL_SECONDS) # NoResult

\* C3 -- read-through: a request made without refresh that fetched a
\* non-empty, error-free result leaves it in the cache under its key; the
\* entry stays until its TTL, counted from that write, has elapsed or the
\* write of another key displaces it from the full cache; and a request
\* without refresh whose key has an entry is answered from it at once, with
\* cache_hit set and no strategy started.
C3_ReadThrough ==
  [][ /\ \A r \in Reqs :
           (/\ pc[r] # "done" /\ pc'[r] = "done"
            /\ ~p'[r].bypass /\ ~cache_hit'[r]
            /\ outcome'[r] = "ok" /\ ~result'[r].error /\ result'[r].n > 0)
           => CacheGet(_PLAYLIST_CACHE', KeyOf(p'[r]), _TTL_SECONDS) = result'[r]
      /\ \A i \in 1..Len(_PLAYLIST_CACHE) :
           LET e == _PLAYLIST_CACHE[i]
               displaced ==
                 /\ Len(_PLAYLIST_CACHE) >= MaxSize
                 /\ \E j \in 1..Len(_PLAYLIST_CACHE') :
                       /\ _PLAYLIST_CACHE'[j].key # e.key
                       /\ \A k \in 1..Len(_PLAYLIST_CACHE) :
                             _PLAYLIST_CACHE[k].key # _PLAYLIST_CACHE'[j].key
           IN (e.age + (clock' - clock) < _TTL_SECONDS /\ ~displaced)
              => CacheGet(_PLAYLIST_CACHE', e.key, _TTL_SECONDS) = e.res
      /\ \A r \in Reqs :
           (/\ pc[r] = "idle" /\ pc'[r] # "idle" /\ ~p'[r].bypass
            /\ CacheGet(_PLAYLIST_CACHE, KeyOf(p'[r]), _TTL_SECONDS) # NoResult)
           => /\ pc'[r] = "done" /\ outcome'[r] = "ok" /\ cache_hit'[r]
              /\ result'[r] = CacheGet(_PLAYLIST_CACHE, KeyOf(p'[r]), _TTL_SECONDS)
              /\ started'[r] = <<>>
    ]_vars

\* A request was answered from an entry written some time ago.
C3_Witness ==
  \E r \in Reqs :
     /\ pc[r] = "done" /\ cache_hit[r] /\ served[r] = "result_cache"
     /\ \E i \in 1..Len(_PLAYLIST_CACHE) :
           /\ _PLAYLIST_CACHE[i].key = KeyOf(p[r])
           /\ _PLAYLIST_CACHE[i].age > 0

\* C4 -- forced bypass: a request with refresh = 1 leaves the result cache
\* as it was and, when it succeeds, its result comes from a fetch made for
\* it, not from either cache.
C4_ForcedBypass ==
  [][ \A r \in Reqs :
         (pc[r] # "done" /\ pc'[r] = "done" /\ p'[r].bypass)
         => /\ _PLAYLIST_CACHE' = _PLAYLIST_CACHE
            /\ outcome'[r] = "ok" => served'[r] \notin {"result_cache", "web_cache"}
    ]_vars

C6_ExplicitModeOnly ==
  \A r \in Reqs :
     /\ (p[r].src = "apple" /\ p[r].mode = "fast") =>
          \A i \in 1..Len(started[r]) : started[r][i] = "browser_fast"
     /\ (p[r].src = "apple" /\ p[r].mode = "legacy") =>
          \A i \in 1..Len(started[r]) : started[r][i] = "browser_legacy"

\* C7 -- guaranteed context cleanup: a request that has returned or raised
\* owns no open browser context; a context is open only while its owner is
\* creating the page or working on it.
C7_ContextCleanup ==
  \A c \in contexts : pc[c.owner] \in {"page", "run"}

\* A request that had opened a context has ended in an error, and no
\* context is left.
C7_Witness ==
  \E r \in Reqs :
     /\ pc[r] = "done" /\ outcome[r] = "error" /\ context[r] # "none"
     /\ contexts = {}

\* C8 -- a request holds at most one open context at any moment: the
\* context of the failed fast strategy is closed before the legacy
\* strategy opens its own.
C8_OneContextPerRequest ==
  \A r \in Reqs : Cardinality({c \in contexts : c.owner = r}) <= 1

\* The legacy strategy holds its context after the fast strategy, which
\* had one, failed in its page work.
C8_Witness ==
  \E r \in Reqs :
     /\ strat[r] = "legacy" /\ ContextOpen(r)
     /\ fast_error[r].raised
     /\ fast_error[r].reason \in {"none", "http_status"}

(***************************************************************************)
(* Properties of the browser pool (specifications SpecPool, SpecGate)      *)
(***************************************************************************)
\* C9 -- one shared browser, started lazily: while the service runs and no
\* launch or context creation has failed, at most one launch has completed;
\* a launch is completed only for a scrape request that asked for a context
\* while no browser existed; a step of a request for the direct-API source
\* leaves the pool untouched; and shutdown closes the browser and clears
\* the handles of the pool.
C9_SingleLazyBrowser ==
  [][ /\ (running' /\ nfail' = 0) => launches' <= 1
      /\ launches' # launches =>
           \E r \in Reqs :
              /\ pc[r] = "launching" /\ p[r].src = "apple"
              /\ _browser = 0 /\ _browser' # 0 /\ bh'[r] = _browser'
      /\ \A r \in Reqs :
           (pc'[r] # pc[r] /\ p[r].src # "apple" /\ p'[r].src # "apple")
           => UNCHANGED <<poolVars, contexts>>
      /\ (running /\ ~running') =>
           /\ _browser' = 0 /\ ~_pw'
           /\ _browser \notin alive'
           /\ \A c \in contexts' : c.browser # _browser
    ]_vars

\* Two scrape requests hold contexts of the one browser launched so far.
C9_Witness ==
  \E r1, r2 \in Reqs :
     /\ r1 # r2 /\ ContextOpen(r1) /\ ContextOpen(r2)
     /\ running /\ nfail = 0 /\ launches = 1

\* C10 -- bounded concurrency gate: the scrape requests holding a browser
\* context are never more than the capacity of the gate.
C10_BoundedGate ==
  Cardinality({r \in Reqs : ContextOpen(r)}) <= APPLE_SEM_CAPACITY

(***************************************************************************)
(* Properties of the strategy cascade, continued (specification Spec)      *)
(***************************************************************************)
\* C11 -- timeouts advance the state machine: under mode auto, a fast
\* strategy that stops working on its page either has a result or hands
\* over to the legacy strategy; the request does not fail at that point.
C11_TimeoutAdvances ==
  [][ \A r \in Reqs :
         (/\ pc[r] = "run" /\ strat[r] = "fast" /\ p[r].mode = "auto"
          /\ pc'[r] # "run")
         => \/ pc'[r] = "done" /\ outcome'[r] = "ok"
            \/ strat'[r] = "legacy"
    ]_vars

(***************************************************************************)
(* The row-scrolling loop of a browser strategy (core.py:1050-1159)        *)
(***************************************************************************)
stable_target == IF APPLE_DOM_SCROLL_STABLE_ROUNDS > 1
                 THEN APPLE_DOM_SCROLL_STABLE_ROUNDS ELSE 1
max_iters == IF APPLE_DOM_SCROLL_MAX_ITERS > 1 THEN APPLE_DOM_SCROLL_MAX_ITERS ELSE 1

\* Fingerprints of a last row; "None" when the snapshot shows no row or
\* could not be taken.
RowKeys == {"None", "k1", "k2"}

Grew_AnyKey(sc, count, track_key, unique_count) ==
  \/ count > sc.prev_count
  \/ track_key # "None"
  \/ unique_count > sc.prev_unique

\* The growth test of one round (core.py:1144).
Grew(sc, count, track_key, unique_count) ==
  \/ count > sc.prev_count
  \/ track_key # "None" /\ track_key # sc.prev_last_key
  \/ unique_count > sc.prev_unique

\* One round of the loop: the page shows count rows, the last of them with
\* fingerprint track_key (core.py:1094-1159).
ScrollRound(count, track_key) ==
  /\ ~scroll.done
  /\ LET unique_keys == IF track_key # "None"
                        THEN scroll.unique_keys \cup {track_key}
                        ELSE scroll.unique_keys
         unique_count == Cardinality(unique_keys)
         stable_rounds == IF Grew(scroll, count, track_key, unique_count)
                          THEN 0 ELSE scroll.stable_rounds + 1
         snap == [count |-> count, key |-> track_key]
     IN scroll' =
          [i |-> scroll.i + 1,
           prev_count |-> IF count > scroll.prev_count THEN count ELSE scroll.prev_count,
           prev_last_key |-> IF track_key # "None" THEN track_key
                             ELSE scroll.prev_last_key,
           prev_unique |-> IF unique_count > scroll.prev_unique
                           THEN unique_count ELSE scroll.prev_unique,
           unique_keys |-> unique_keys,
           stable_rounds |-> stable_rounds,
           done |-> (stable_rounds >= stable_target \/ scroll.i + 1 >= max_iters),
           last |-> snap,
           same |-> IF snap = scroll.last THEN scroll.same + 1 ELSE 0]
  /\ UNCHANGED <<serviceVars, keyed, matching, spfetch, admit, library, objects, page, diag, http, store, canon, capture>>

InitScroll ==
  /\ InitService /\ scroll = ScrollStart /\ keyed = NoTrack /\ matching = NoMatching
  /\ spfetch = NoFetch /\ admit = NoAdmit /\ library = NoLibrary /\ objects = NoObjects /\ page = NoPage /\ diag = NoDiag /\ http = NoHttp /\ store = NoStore /\ canon = NoCanon /\ capture = NoCapture

NextScroll ==
  \E count \in 0..MaxRows, track_key \in RowKeys : ScrollRound(count, track_key)

SpecScroll == InitScroll /\ [][NextScroll]_vars

\* C12 -- scroll termination: the loop never makes more rounds than the
\* iteration ceiling; it goes on exactly while fewer than the stable
\* threshold of consecutive rounds showed no growth and the ceiling is not
\* reached; and once the page has stopped changing, after N rounds, the
\* loop makes at most the stable threshold of further rounds.
C12_ScrollTermination ==
  /\ scroll.i <= max_iters
  /\ scroll.done <=> (scroll.stable_rounds >= stable_target \/ scroll.i >= max_iters)
  /\ scroll.stable_rounds <= stable_target
  /\ scroll.same <= scroll.stable_rounds
  /\ scroll.same <= stable_target

\* The page grew for three rounds, then stopped, and the loop has ended
\* two rounds later, well before the ceiling.
C12_Witness ==
  /\ scroll.done /\ scroll.i = 3 + stable_target /\ scroll.i < max_iters
  /\ scroll.same = stable_target /\ scroll.last.count > 0

\* C13 -- structured failure: when the cascade has failed, the detail of
\* the error response names the source used and carries the reason of the
\* error the cascade raised: that of the legacy strategy if it failed,
\* otherwise that of the fast strategy.
C13_StructuredFailure ==
  \A r \in Reqs :
     (pc[r] = "done" /\ outcome[r] = "error" /\ p[r].src = "apple")
     => /\ detail[r].used_source = "apple"
        /\ legacy_error[r].raised => detail[r].reason = legacy_error[r].reason
        /\ (fast_error[r].raised /\ ~legacy_error[r].raised)
             => detail[r].reason = fast_error[r].reason

(***************************************************************************)
(* Track keys (core.py:558-585, 675-696; lib/rekordbox/normalizer.py)      *)
(* A string is a sequence of characters; "feat." stands for any of the     *)
(* words feat. / ft. / featuring, and the keys' prefixes are one token.    *)
(***************************************************************************)
SetMax(S) == CHOOSE x \in S : \A y \in S : y <= x
SetMin(S) == CHOOSE x \in S : \A y \in S : x <= y

RECURSIVE LStrip(_), Brackets(_, _, _), Spaces(_), Feat(_), Split0(_, _)

\* str.lower() / str.upper() on one character.
ToLower(c) ==
  CASE c = "A" -> "a" [] c = "B" -> "b" [] c = "C" -> "c" [] c = "D" -> "d"
    [] c = "X" -> "x" [] c = "Y" -> "y"
    [] c = "Radio Edit" -> "radio edit" [] c = "Original Mix" -> "original mix"
    [] OTHER -> c
ToUpper(c) ==
  CASE c = "a" -> "A" [] c = "b" -> "B" [] c = "c" -> "C" [] c = "d" -> "D"
    [] c = "x" -> "X" [] c = "y" -> "Y" [] OTHER -> c
Lower(s) == [i \in 1..Len(s) |-> ToLower(s[i])]
Upper(s) == [i \in 1..Len(s) |-> ToUpper(s[i])]

Reverse(s) == [i \in 1..Len(s) |-> s[Len(s) + 1 - i]]
LStrip(s) == IF s # <<>> /\ Head(s) = " " THEN LStrip(Tail(s)) ELSE s
\* str.strip()
Strip(s) ==
  IF s = <<>> \/ (Head(s) # " " /\ s[Len(s)] # " ") THEN s
  ELSE Reverse(LStrip(Reverse(LStrip(s))))

Has(s, c) == \E i \in 1..Len(s) : s[i] = c

\* re.sub(r"\([^)]*\)", "", s), and the same for "[" and "]": every
\* leftmost opening bracket that has a closing one after it goes with
\* everything up to the first such closing bracket.
Brackets(s, open, close) ==
  IF s = <<>> THEN <<>>
  ELSE IF Head(s) = open /\ \E j \in 2..Len(s) : s[j] = close
  THEN LET j == CHOOSE k \in 2..Len(s) :
                   s[k] = close /\ \A m \in 2..(k - 1) : s[m] # close
       IN Brackets(SubSeq(s, j + 1, Len(s)), open, close)
  ELSE <<Head(s)>> \o Brackets(Tail(s), open, close)
RemoveBrackets(s) ==
  LET round == IF Has(s, "(") THEN Brackets(s, "(", ")") ELSE s
  IN IF Has(round, "[") THEN Brackets(round, "[", "]") ELSE round

\* re.sub(r"\s+", " ", s)
Spaces(s) ==
  IF Len(s) < 2 THEN s
  ELSE IF s[1] = " " /\ s[2] = " " THEN Spaces(Tail(s))
  ELSE <<Head(s)>> \o Spaces(Tail(s))
CollapseSpaces(s) == IF Has(s, " ") THEN Spaces(s) ELSE s

\* re.sub(r"\s+(feat\.|ft\.|featuring)\s+.*$", "", s): cut at the first
\* run of spaces that is followed by the word and a space.
Feat(s) ==
  IF s = <<>> THEN <<>>
  ELSE IF Head(s) = " " /\ LStrip(s) # <<>> /\ Head(LStrip(s)) = "feat."
          /\ Len(LStrip(s)) >= 2 /\ LStrip(s)[2] = " "
  THEN <<>>
  ELSE <<Head(s)>> \o Feat(Tail(s))
CutFeat(s) == IF Has(s, "feat.") THEN Feat(s) ELSE s

\* s.replace("|", "／") and s.replace("\\", "＼")
EscapePipe_Kept(s) == s

EscapePipe(s) == [i \in 1..Len(s) |-> IF s[i] = "|" THEN "fullwidth-slash" ELSE s[i]]
EscapeBackslash(s) ==
  [i \in 1..Len(s) |-> IF s[i] = "\\" THEN "fullwidth-backslash" ELSE s[i]]

\* `if sep in s: s = s.split(sep)[0]` for a one-character separator
Split0(s, sep) ==
  IF s = <<>> \/ Head(s) = sep THEN <<>> ELSE <<Head(s)>> \o Split0(Tail(s), sep)
FirstPart(s, sep) == IF Has(s, sep) THEN Split0(s, sep) ELSE s

\* The words of the suffix pattern, each one token; "remix" may be
\* followed by anything.
MixQualifiers == {"original mix", "extended mix", "radio edit", "club mix", "dub mix",
                  "dub", "vip", "edit", "mix"}

\* re.sub(r"\s*-\s*(original mix|...|remix.*|mix)$", "", s): the cut is at
\* the leftmost "-" that the words follow up to the very end of s, and
\* takes the spaces before that "-" with it.
Suffix(s) ==
  LET tail(n) == LStrip(SubSeq(s, n + 1, Len(s)))
      at == {n \in 1..Len(s) :
               /\ s[n] = "-"
               /\ tail(n) # <<>>
               /\ \/ Head(tail(n)) = "remix"
                  \/ Len(tail(n)) = 1 /\ Head(tail(n)) \in MixQualifiers}
  IN IF at = {} THEN s
     ELSE Reverse(LStrip(Reverse(SubSeq(s, 1, SetMin(at) - 1))))
CutSuffix(s) == IF Has(s, "-") THEN Suffix(s) ELSE s

\* normalizer.normalize_title_base
normalize_title_base(title) ==
  EscapePipe(Strip(CollapseSpaces(CutSuffix(CutFeat(RemoveBrackets(Strip(Lower(title))))))))

\* normalizer.normalize_artist
normalize_artist(name) ==
  LET s0 == Strip(Lower(name))
      s1 == Strip(FirstPart(s0, ","))
      s2 == Strip(FirstPart(s1, "&"))
  IN EscapePipe(Strip(CollapseSpaces(CutFeat(s2))))

\* normalizer.normalize_album
normalize_album(album) == EscapePipe(Strip(CollapseSpaces(RemoveBrackets(Strip(Lower(album))))))

\* core._generate_track_key_fallback._sanitize_field
_sanitize_field(s) == EscapePipe(EscapeBackslash(s))

\* core._generate_track_key_fallback
_generate_track_key_fallback(title, artist, album) ==
  LET t_norm == _sanitize_field(normalize_title_base(title))
      a_norm == _sanitize_field(normalize_artist(artist))
      alb_norm == _sanitize_field(normalize_album(album))
  IN IF alb_norm # <<>>
     THEN <<"norm:">> \o t_norm \o <<"|">> \o a_norm \o <<"|">> \o alb_norm
     ELSE <<"norm:">> \o t_norm \o <<"|">> \o a_norm

\* `isrc and isrc.strip()`: given, and not only whitespace
IsrcPresent(isrc) == isrc # <<"None">> /\ Strip(isrc) # <<>>

\* core._generate_track_key_primary; <<"None">> is None
_generate_track_key_primary_AnyGiven(isrc) ==
  IF isrc # <<"None">> THEN <<"isrc:">> \o Upper(isrc) ELSE <<"None">>

_generate_track_key_primary(isrc) ==
  IF IsrcPresent(isrc) THEN <<"isrc:">> \o Upper(isrc) ELSE <<"None">>

\* The keys of one track in playlist_result_to_dict (core.py:675-696).
TrackKeys ==
  /\ keyed.out = NoKeys
  /\ keyed # NoTrack
  /\ LET track_key_primary == _generate_track_key_primary(keyed.isrc)
         track_key_fallback ==
           _generate_track_key_fallback(keyed.title, keyed.artist, keyed.album)
         isIsrc == track_key_primary # <<"None">> /\ Head(track_key_primary) = "isrc:"
     IN keyed' = [keyed EXCEPT !.out =
                    [primary |-> IF track_key_primary # <<"None">>
                                 THEN track_key_primary ELSE track_key_fallback,
                     fallback |-> track_key_fallback,
                     type |-> IF isIsrc THEN "isrc" ELSE "norm"]]
  /\ UNCHANGED <<serviceVars, scroll, matching, spfetch, admit, library, objects, page, diag, http, store, canon, capture>>

RECURSIVE Strings(_, _)
\* The strings of at most n characters over alphabet.
Strings(alphabet, n) ==
  IF n = 0 THEN {<<>>}
  ELSE LET shorter == Strings(alphabet, n - 1)
       IN shorter \cup {Append(s, c) : s \in shorter, c \in alphabet}

IsrcChars == {"a", "A", " "}

\* Tracks with every ISRC, and a title and artist that may normalize to
\* nothing.
InitKeysPrimary ==
  /\ InitService /\ scroll = NoScroll /\ matching = NoMatching /\ spfetch = NoFetch /\ admit = NoAdmit /\ library = NoLibrary /\ objects = NoObjects /\ page = NoPage /\ diag = NoDiag /\ http = NoHttp /\ store = NoStore /\ canon = NoCanon /\ capture = NoCapture
  /\ keyed \in [title : {<<>>, <<"a">>, <<"(", ")">>}, artist : {<<>>, <<"B">>},
                album : {<<>>, <<"c">>},
                isrc : {<<"None">>} \cup Strings(IsrcChars, MaxLen + 1),
                out : {NoKeys}]

SpecKeysPrimary == InitKeysPrimary /\ [][TrackKeys]_vars

\* C14 -- track key priority: the primary key of a track is never empty;
\* with an ISRC that is given and not only whitespace it is "isrc:"
\* followed by the uppercased ISRC, and the type is "isrc"; otherwise it is
\* the fallback key and the type is "norm".
C14_TrackKeyPriority ==
  keyed.out # NoKeys =>
     /\ keyed.out.primary # <<>>
     /\ IF keyed.isrc # <<"None">> /\ \E i \in 1..Len(keyed.isrc) : keyed.isrc[i] # " "
        THEN /\ keyed.out.primary = <<"isrc:">> \o Upper(keyed.isrc)
             /\ keyed.out.type = "isrc"
        ELSE /\ keyed.out.primary = keyed.out.fallback
             /\ keyed.out.type = "norm"

\* A track with a mixed-case ISRC and no title or artist got the upper-cased
\* ISRC key.
C14_Witness ==
  /\ keyed.out # NoKeys /\ keyed.out.type = "isrc"
  /\ keyed.isrc = <<"a", "A">> /\ keyed.out.primary = <<"isrc:", "A", "A">>
  /\ keyed.title = <<>> /\ keyed.artist = <<>>


TitleChars == {"a", "B", "|", "\\", " ", "(", ")"}
ArtistChars == {"a", "|", "\\", ",", "&", " "}
\* Titles longer than MaxLen: a featured artist, and a pipe between letters.
LongTitles == {<<"a", " ", "feat.", " ", "B">>, <<"a", "|", "B">>,
               <<"a", " ", " ", "(", "B", ")">>}
Albums == {<<>>, <<"c">>, <<"|">>, <<"\\">>, <<"(", "c", ")">>, <<" ">>}

\* Tracks without ISRC, with every short title, artist and album.
InitKeysFallback ==
  /\ InitService /\ scroll = NoScroll /\ matching = NoMatching /\ spfetch = NoFetch /\ admit = NoAdmit /\ library = NoLibrary /\ objects = NoObjects /\ page = NoPage /\ diag = NoDiag /\ http = NoHttp /\ store = NoStore /\ canon = NoCanon /\ capture = NoCapture
  /\ keyed \in [title : Strings(TitleChars, MaxLen) \cup LongTitles,
                artist : Strings(ArtistChars, MaxArtistLen),
                album : Albums, isrc : {<<"None">>}, out : {NoKeys}]

SpecKeysFallback == InitKeysFallback /\ [][TrackKeys]_vars

RECURSIVE SplitOn(_, _)
\* str.split(sep): the fields of s between the separators.
SplitOn(s, sep) ==
  IF \A i \in 1..Len(s) : s[i] # sep THEN <<s>>
  ELSE LET j == CHOOSE k \in 1..Len(s) : s[k] = sep /\ \A m \in 1..(k - 1) : s[m] # sep
       IN <<SubSeq(s, 1, j - 1)>> \o SplitOn(SubSeq(s, j + 1, Len(s)), sep)

\* The album of a track counts when something of it is left outside brackets.
HasAlbum(album) == Strip(RemoveBrackets(Strip(album))) # <<>>

\* C15 -- delimiter safety of the fallback key: the part after "norm:"
\* splits on "|" into exactly two fields without album and three with one,
\* no field holds a backslash, and title "A|B" by "C" and title "A" by "B|C"
\* have different keys.
C15_DelimiterSafety ==
  /\ keyed.out # NoKeys =>
       LET key == keyed.out.fallback
           fields == SplitOn(Tail(key), "|")
       IN /\ Head(key) = "norm:"
          /\ Len(fields) = IF HasAlbum(keyed.album) THEN 3 ELSE 2
          /\ \A i \in 1..Len(key) : key[i] # "\\"
  /\ _generate_track_key_fallback(<<"A", "|", "B">>, <<"C">>, <<>>)
       # _generate_track_key_fallback(<<"A">>, <<"B", "|", "C">>, <<>>)

\* A track with a pipe in title and album and a backslash as artist got a
\* key of three fields.
C15_Witness ==
  /\ keyed.title = <<"a", "|", "B">> /\ keyed.artist = <<"\\">> /\ keyed.album = <<"|">>
  /\ keyed.out.fallback = <<"norm:", "a", "fullwidth-slash", "b", "|",
                            "fullwidth-backslash", "|", "fullwidth-slash">>


(***************************************************************************)
(* Matching against the Rekordbox library (lib/rekordbox/matcher.py,       *)
(* parser.py:93-134).  A library is the sequence of its TRACK elements; a  *)
(* similarity ratio is the pair <<2 * matches, total length>>.             *)
(***************************************************************************)
RECURSIVE CommonLen(_, _, _, _), Matches(_, _), Tuples(_, _)

\* The length of the block a[i..] = b[j..].
CommonLen(a, b, i, j) ==
  IF i > Len(a) \/ j > Len(b) \/ a[i] # b[j] THEN 0
  ELSE 1 + CommonLen(a, b, i + 1, j + 1)


\* difflib.SequenceMatcher.get_matching_blocks: the longest common block,
\* the earliest in a and then in b, and the same to its left and its right.
Matches(a, b) ==
  LET starts == {s \in (1..Len(a)) \X (1..Len(b)) :
                   /\ a[s[1]] = b[s[2]]
                   /\ s[1] = 1 \/ s[2] = 1 \/ a[s[1] - 1] # b[s[2] - 1]}
  IN IF starts = {} THEN 0
     ELSE LET k == SetMax({CommonLen(a, b, s[1], s[2]) : s \in starts})
              longest == {s \in starts : CommonLen(a, b, s[1], s[2]) = k}
              i == SetMin({s[1] : s \in longest})
              j == SetMin({s[2] : s \in {x \in longest : x[1] = i}})
          IN k + Matches(SubSeq(a, 1, i - 1), SubSeq(b, 1, j - 1))
               + Matches(SubSeq(a, i + k, Len(a)), SubSeq(b, j + k, Len(b)))

\* matcher._similar: SequenceMatcher(None, a, b).ratio()
_similar(a, b) ==
  IF Len(a) + Len(b) = 0 THEN <<1, 1>> ELSE <<2 * Matches(a, b), Len(a) + Len(b)>>

\* Comparison of two ratios.
Above(x, y) == x[1] * y[2] > y[1] * x[2]
AtLeast(x, y) == x[1] * y[2] >= y[1] * x[2]
FuzzyThreshold == <<92, 100>>

\* `if isrc:` -- an ISRC that is given and not the empty string
Truthy(isrc) == isrc # <<"None">> /\ isrc # <<>>

\* Only the plain pair, the title read as it stands.
generate_title_artist_pairs_PlainOnly(title, artist) ==
  LET base_title_norm == normalize_title_base(title)
      base_artist_norm == normalize_artist(artist)
  IN IF base_title_norm # <<>> /\ base_artist_norm # <<>>
     THEN <<<<base_title_norm, base_artist_norm>>>> ELSE <<>>

\* normalizer.generate_title_artist_pairs
generate_title_artist_pairs(title, artist) ==
  LET base_title_norm == normalize_title_base(title)
      base_artist_norm == normalize_artist(artist)
      base == IF base_title_norm # <<>> /\ base_artist_norm # <<>>
              THEN <<<<base_title_norm, base_artist_norm>>>> ELSE <<>>
      s == Strip(title)
      \* re.match(r"^(?P<left>.+?)\s*-\s*(?P<right>.+)$", s): the shortest
      \* non-empty left part that spaces, a dash and something follow
      cuts == {k \in 1..Len(s) :
                 LET rest == LStrip(SubSeq(s, k + 1, Len(s)))
                 IN Len(rest) >= 2 /\ Head(rest) = "-"}
  IN IF cuts = {} THEN base
     ELSE LET k == SetMin(cuts)
              rest == LStrip(SubSeq(s, k + 1, Len(s)))
              cand_artist_norm == normalize_artist(Strip(SubSeq(s, 1, k)))
              cand_title_norm == normalize_title_base(Strip(Tail(rest)))
              key == <<cand_title_norm, cand_artist_norm>>
          IN IF cand_artist_norm # <<>> /\ cand_title_norm # <<>> /\ base # <<key>>
             THEN Append(base, key) ELSE base

\* The indices of lib that satisfy Test, in order.
Where(lib, Test(_)) ==
  LET F[n \in 0..Len(lib)] ==
        IF n = 0 THEN <<>> ELSE IF Test(n) THEN Append(F[n - 1], n) ELSE F[n - 1]
  IN F[Len(lib)]

HasPair(pairs, key) == \E n \in 1..Len(pairs) : pairs[n] = key

\* parser.load_rekordbox_library_xml: the four indexes, as lookups that
\* give the indices of the library's tracks.
by_isrc_Exact(lib, code) ==
  LET hits == Where(lib, LAMBDA n : Truthy(lib[n].isrc) /\ lib[n].isrc = code)
  IN IF hits = <<>> THEN 0 ELSE hits[Len(hits)]

by_isrc(lib, code) ==
  LET hits == Where(lib, LAMBDA n : Truthy(lib[n].isrc) /\ Upper(lib[n].isrc) = code)
  IN IF hits = <<>> THEN 0 ELSE hits[Len(hits)]

by_title_artist(lib, key) ==
  Where(lib, LAMBDA n :
    HasPair(generate_title_artist_pairs(Strip(lib[n].title), Strip(lib[n].artist)), key))

by_artist_norm(lib, artist_norm) ==
  Where(lib, LAMBDA n : /\ normalize_artist(Strip(lib[n].artist)) # <<>>
                        /\ normalize_artist(Strip(lib[n].artist)) = artist_norm)

by_title_album(lib, key2) ==
  Where(lib, LAMBDA n :
    /\ normalize_title_base(Strip(lib[n].title)) # <<>>
    /\ normalize_album(Strip(lib[n].album)) # <<>>
    /\ <<normalize_title_base(Strip(lib[n].title)), normalize_album(Strip(lib[n].album))>>
         = key2)

\* The best of the candidates' scores: <<best_score, position of best_track>>
\* after the loop of matcher.py:113-119 over the first n candidates.
BestOf(scores) ==
  LET F[n \in 0..Len(scores)] ==
        IF n = 0 THEN <<<<0, 1>>, 0>>
        ELSE IF Above(scores[n], F[n - 1][1]) THEN <<scores[n], n>> ELSE F[n - 1]
  IN F[Len(scores)]

Stage(method, score, rb, cands, scores) ==
  [owned |-> TRUE, method |-> method, score |-> score, rb_track |-> rb,
   candidates |-> cands, scores |-> scores, judged |-> TRUE]

FuzzyStage_Loose(best, candidates, scores) ==
  IF Above(best[1], FuzzyThreshold) /\ best[2] # 0
  THEN Stage("fuzzy", best[1], candidates[best[2]], candidates, scores)
  ELSE [NoOwned EXCEPT !.candidates = candidates, !.scores = scores, !.judged = TRUE]

\* The best candidate is recorded whether or not it is close enough.
FuzzyStage_KeepsBest(best, candidates, scores) ==
  IF best[2] = 0
  THEN [NoOwned EXCEPT !.candidates = candidates, !.scores = scores, !.judged = TRUE]
  ELSE [Stage("fuzzy", best[1], candidates[best[2]], candidates, scores)
          EXCEPT !.owned = AtLeast(best[1], FuzzyThreshold)]

\* matcher.py:121-130: the decision on the best candidate
FuzzyStage(best, candidates, scores) ==
  IF AtLeast(best[1], FuzzyThreshold) /\ best[2] # 0
  THEN Stage("fuzzy", best[1], candidates[best[2]], candidates, scores)
  ELSE [NoOwned EXCEPT !.candidates = candidates, !.scores = scores, !.judged = TRUE]

LaterStages_AlbumFirst(lib, title_norm, artist_norm, album_norm, fuzzy) ==
  LET exact == by_title_artist(lib, <<title_norm, artist_norm>>)
      album == by_title_album(lib, <<title_norm, album_norm>>)
  IN IF title_norm # <<>> /\ album_norm # <<>> /\ album # <<>>
     THEN Stage("album", <<1, 1>>, album[1], <<>>, <<>>)
     ELSE IF title_norm # <<>> /\ artist_norm # <<>> /\ exact # <<>>
     THEN Stage("exact", <<1, 1>>, exact[1], <<>>, <<>>)
     ELSE fuzzy

\* matcher.py:79-130: the stages after the ISRC stage
LaterStages(lib, title_norm, artist_norm, album_norm, fuzzy) ==
  LET exact == by_title_artist(lib, <<title_norm, artist_norm>>)
      album == by_title_album(lib, <<title_norm, album_norm>>)
  IN IF title_norm # <<>> /\ artist_norm # <<>> /\ exact # <<>>
     THEN Stage("exact", <<1, 1>>, exact[1], <<>>, <<>>)
     ELSE IF title_norm # <<>> /\ album_norm # <<>> /\ album # <<>>
     THEN Stage("album", <<1, 1>>, album[1], <<>>, <<>>)
     ELSE fuzzy

\* matcher.mark_owned_tracks, the body of its loop for one track t
owned_detail(t, lib) ==
  LET title_norm == normalize_title_base(t.title)
      artist_norm == normalize_artist(t.artist)
      album_norm == normalize_album(t.album)
      rb_isrc == IF Truthy(t.isrc) THEN by_isrc(lib, Upper(t.isrc)) ELSE 0
      candidates == by_artist_norm(lib, artist_norm)
      scores == [n \in 1..Len(candidates) |->
                   _similar(title_norm, normalize_title_base(Strip(lib[candidates[n]].title)))]
      fuzzy == IF title_norm # <<>> /\ artist_norm # <<>>
               THEN FuzzyStage(BestOf(scores), candidates, scores)
               ELSE [NoOwned EXCEPT !.judged = TRUE]
  IN IF rb_isrc # 0 THEN Stage("isrc", <<1, 1>>, rb_isrc, <<>>, <<>>)
     ELSE LaterStages(lib, title_norm, artist_norm, album_norm, fuzzy)

\* mark_owned_tracks judges the track against the library.
MarkOwned ==
  /\ ~matching.out.judged
  /\ matching' = [matching EXCEPT !.out = owned_detail(matching.track, matching.lib)]
  /\ UNCHANGED <<serviceVars, scroll, keyed, spfetch, admit, library, objects, page, diag, http, store, canon, capture>>

\* Titles of 23 letters and a tail: the ratio of Near(x) to Near(y) is
\* 2 * 23 / (46 + Len(x) + Len(y)) when x and y share nothing.
Stem == <<"a", "b", "c", "d", "e", "f", "g", "h", "i", "j", "k", "l", "m", "n", "o",
          "p", "q", "r", "s", "t", "u", "v", "w">>
Near(tail) == Stem \o tail

PlaylistTitles == {<<"a">>, <<"(", ")">>, Near(<<"2", "2">>), Near(<<"2", "2", "2">>)}
LibraryTitles == {<<"A">>, Near(<<"1", "1">>), <<"b", "-", "a">>}

PlaylistTrackInputs ==
  [title : PlaylistTitles, artist : {<<"b">>, <<"C">>}, album : {<<>>, <<"D">>},
   isrc : {<<"None">>, <<"X">>, <<"y">>}]

\* TRACK elements: with album and ISRC, or with neither.
LibraryTrackInputs ==
  [title : LibraryTitles, artist : {<<"B">>, <<"c">>}, album : {<<>>}, isrc : {<<"None">>}]
  \cup [title : LibraryTitles, artist : {<<"B">>, <<"c">>}, album : {<<"d">>},
        isrc : {<<"x">>}]

\* The sequences of at most n elements of S.
Tuples(S, n) ==
  IF n = 0 THEN {<<>>}
  ELSE LET shorter == Tuples(S, n - 1)
       IN shorter \cup {Append(q, x) : q \in shorter, x \in S}

InitMatching ==
  /\ InitService /\ scroll = NoScroll /\ keyed = NoTrack /\ spfetch = NoFetch /\ admit = NoAdmit /\ library = NoLibrary /\ objects = NoObjects /\ page = NoPage /\ diag = NoDiag /\ http = NoHttp /\ store = NoStore /\ canon = NoCanon /\ capture = NoCapture
  /\ matching \in [track : PlaylistTrackInputs, lib : Tuples(LibraryTrackInputs, MaxLib),
                   out : {NoOwned}]

SpecMatching == InitMatching /\ [][MarkOwned]_vars


\* What the stages look for, said of the library's tracks themselves.
SameIsrc(t, rb) ==
  /\ t.isrc # <<"None">> /\ rb.isrc # <<"None">> /\ t.isrc # <<>>
  /\ Len(t.isrc) = Len(rb.isrc)
  /\ \A i \in 1..Len(t.isrc) : ToLower(t.isrc[i]) = ToLower(rb.isrc[i])
SameTitleArtist(t, rb) ==
  /\ normalize_title_base(t.title) # <<>> /\ normalize_artist(t.artist) # <<>>
  /\ HasPair(generate_title_artist_pairs(Strip(rb.title), Strip(rb.artist)),
             <<normalize_title_base(t.title), normalize_artist(t.artist)>>)
SameTitleAlbum(t, rb) ==
  /\ normalize_title_base(t.title) # <<>> /\ normalize_album(t.album) # <<>>
  /\ normalize_title_base(t.title) = normalize_title_base(Strip(rb.title))
  /\ normalize_album(t.album) = normalize_album(Strip(rb.album))
CloseTitle(t, rb) ==
  /\ normalize_title_base(t.title) # <<>> /\ normalize_artist(t.artist) # <<>>
  /\ normalize_artist(t.artist) = normalize_artist(Strip(rb.artist))
  /\ AtLeast(_similar(normalize_title_base(t.title), normalize_title_base(Strip(rb.title))),
             FuzzyThreshold)
InLibrary(Same(_, _)) ==
  \E n \in 1..Len(matching.lib) : Same(matching.track, matching.lib[n])

\* C16 -- matching priority cascade: the recorded method is the first of
\* ISRC, exact title+artist, title+album, fuzzy that finds a library track;
\* a track no stage finds a library track for is not owned.
C16_PriorityCascade ==
  matching.out.judged /\ matching # NoMatching =>
    /\ matching.out.method =
         IF InLibrary(SameIsrc) THEN "isrc"
         ELSE IF InLibrary(SameTitleArtist) THEN "exact"
         ELSE IF InLibrary(SameTitleAlbum) THEN "album"
         ELSE IF InLibrary(CloseTitle) THEN "fuzzy"
         ELSE "none"
    /\ matching.out.owned <=> matching.out.method # "none"

\* A track that the exact stage finds by one library track and the album
\* stage would find by another is owned with method exact.
C16_Witness ==
  /\ matching.out.judged /\ matching.out.method = "exact"
  /\ InLibrary(SameTitleAlbum) /\ InLibrary(CloseTitle)
  /\ ~SameTitleAlbum(matching.track, matching.lib[matching.out.rb_track])


\* C17 -- ISRC match wins and is case-insensitive: a track whose ISRC is
\* that of a library track up to letter case is owned with method isrc and
\* score 1.0 by a library track of that ISRC, whatever its title, artist
\* and album are and however close another library track's title is.
C17_IsrcWins ==
  matching.out.judged /\ InLibrary(SameIsrc) =>
    /\ matching.out.owned /\ matching.out.method = "isrc"
    /\ matching.out.score = <<1, 1>>
    /\ matching.out.rb_track \in 1..Len(matching.lib)
    /\ SameIsrc(matching.track, matching.lib[matching.out.rb_track])

\* A track owned by ISRC in another letter case, with another title than
\* the library track of that ISRC, while a different library track has a
\* close title under the track's artist.
C17_Witness ==
  /\ matching.out.judged /\ matching.out.method = "isrc"
  /\ matching.track.isrc = <<"X">>
  /\ matching.lib[matching.out.rb_track].isrc = <<"x">>
  /\ ~CloseTitle(matching.track, matching.lib[matching.out.rb_track])
  /\ \E n \in 1..Len(matching.lib) :
        n # matching.out.rb_track /\ CloseTitle(matching.track, matching.lib[n])

\* C18 -- fuzzy boundary: when the fuzzy stage is reached (no earlier stage
\* found a library track; normalized title and artist are not empty) its
\* candidates are exactly the library tracks of the same normalized artist,
\* the track is owned with method fuzzy if and only if the highest title
\* ratio among them is at least 0.92, and the score is that highest ratio.
C18_FuzzyBoundary ==
  LET title_norm == normalize_title_base(matching.track.title)
      artist_norm == normalize_artist(matching.track.artist)
      cands == {n \in 1..Len(matching.lib) :
                  normalize_artist(Strip(matching.lib[n].artist)) = artist_norm}
      ratio(n) == _similar(title_norm, normalize_title_base(Strip(matching.lib[n].title)))
      out == matching.out
  IN (/\ out.judged /\ out.method \notin {"isrc", "exact", "album"}
      /\ title_norm # <<>> /\ artist_norm # <<>>)
     => /\ {out.candidates[i] : i \in 1..Len(out.candidates)} = cands
        /\ out.method = "fuzzy" <=>
             \E n \in cands : ratio(n)[1] * 100 >= 92 * ratio(n)[2]
        /\ out.method = "fuzzy" =>
             /\ out.owned /\ out.rb_track \in cands
             /\ out.score = ratio(out.rb_track)
             /\ \A n \in cands : AtLeast(out.score, ratio(n))
        /\ out.method # "fuzzy" => ~out.owned

\* A track owned by a title of ratio exactly 0.92 (46 / 50) under its
\* artist, while the library has a track of another artist as well.
C18_Witness ==
  /\ matching.out.judged /\ matching.out.method = "fuzzy"
  /\ matching.out.score = <<46, 50>>
  /\ Len(matching.out.candidates) < Len(matching.lib)


(***************************************************************************)
(* The direct-API fetcher (core.fetch_playlist_tracks, core.py:420-550).   *)
(* calls lists what the fetcher has done outside its own code, in order:   *)
(* reading the credentials, creating the client, and each API request;     *)
(* responses lists the status of each track request with its market.       *)
(***************************************************************************)
\* The texts of the errors, as the parts they are made of.
EditorialMessage == <<"editorial playlist (37i9)", "workaround">>
RegionMessage == <<"region-locked or personalized", "tried markets", "workaround">>
EditorialPrefix == <<"3", "7", "i", "9">>

\* re.match(r"^37i9", playlist_id)
IsEditorial(playlist_id) ==
  Len(playlist_id) >= 4 /\ SubSeq(playlist_id, 1, 4) = EditorialPrefix

IdChars == {"0", "3", "7", "8", "9", "a", "d", "i"}
Alnum(s) == \A n \in 1..Len(s) : s[n] \in IdChars

\* core.extract_playlist_id on spotify:playlist:<id>, on
\* https://open.spotify.com/playlist/<id> and on a raw identifier, which
\* has 16 characters or more; <<>> stands for the RuntimeError.
extract_playlist_id(url_or_id) ==
  IF url_or_id = <<>> THEN <<>>
  ELSE IF Head(url_or_id) = "spotify:playlist:" /\ Alnum(Tail(url_or_id))
  THEN Tail(url_or_id)
  ELSE IF Head(url_or_id) = "https://open.spotify.com/playlist/"
  THEN Tail(url_or_id)
  ELSE IF Alnum(url_or_id) /\ Len(url_or_id) >= 16 THEN url_or_id
  ELSE <<>>

\* One entry of SPOTIFY_MARKET: m.strip().upper()
MarketCode(entry) ==
  CASE entry = "jp" -> "JP" [] entry = " us" -> "US" [] entry = "GB" -> "GB" [] OTHER -> ""

\* core.py:494-495: the configured markets, JP,US,GB by default
Markets(market_env) ==
  LET given == SelectSeq([n \in 1..Len(market_env) |-> MarketCode(market_env[n])],
                         LAMBDA code : code # "")
  IN IF given # <<>> THEN given ELSE <<"JP", "US", "GB">>

Fails(f, message) == [f EXCEPT !.pc = "done", !.outcome = "error", !.message = message]

FetchBegin_ClientFirst(f) ==
  LET id == extract_playlist_id(f.url_or_id)
      g == [f EXCEPT !.playlist_id = id, !.calls = <<"credentials", "client">>]
  IN IF id = <<>> THEN Fails(f, <<"could not extract playlist id">>)
     ELSE IF ~f.credentials
     THEN Fails([g EXCEPT !.calls = <<"credentials">>], <<"credentials are not set">>)
     ELSE IF IsEditorial(id) THEN Fails(g, EditorialMessage)
     ELSE [g EXCEPT !.pc = "meta"]

\* core.py:431-452: up to the creation of the API client
FetchBegin(f) ==
  LET id == extract_playlist_id(f.url_or_id)
      g == [f EXCEPT !.playlist_id = id]
  IN IF id = <<>> THEN Fails(f, <<"could not extract playlist id">>)
     ELSE IF IsEditorial(id) THEN Fails(g, EditorialMessage)
     ELSE IF ~f.credentials
     THEN Fails([g EXCEPT !.calls = <<"credentials">>], <<"credentials are not set">>)
     ELSE [g EXCEPT !.pc = "meta", !.calls = <<"credentials", "client">>]

Begin ==
  /\ spfetch.pc = "start"
  /\ spfetch' = FetchBegin(spfetch)
  /\ UNCHANGED <<serviceVars, scroll, keyed, matching, admit, library, objects, page, diag, http, store, canon, capture>>

\* core.py:455-495: sp.playlist answers or fails
PlaylistMeta(ok) ==
  /\ spfetch.pc = "meta"
  /\ LET g == [spfetch EXCEPT !.calls = Append(@, "playlist")]
     IN spfetch' =
          IF ~ok THEN Fails(g, <<"failed to fetch this playlist">>)
          ELSE [g EXCEPT !.pc = "tracks", !.markets = Markets(spfetch.market_env),
                         !.m = 1]
  /\ UNCHANGED <<serviceVars, scroll, keyed, matching, admit, library, objects, page, diag, http, store, canon, capture>>

\* core.py:532-550: after the loop over the markets
Conclude(f) ==
  IF ~f.results \/ (f.items = <<>> /\ f.last_error # 0)
  THEN Fails(f, RegionMessage)
  ELSE [f EXCEPT !.pc = "done", !.outcome = "ok"]

Statuses == {200, 403, 404, 500}

\* What the log keeps of an answer: market, status and, of a page, the
\* number of its items and whether it names a next page.
Answer(m, status, n, next) ==
  <<m, status, IF status = 200 THEN n ELSE 0, status = 200 /\ next>>

\* results.get("items", []) of the answer to request number
\* Len(f.responses) + 1: its n items, each known by market, request and
\* place in the page.
PageItems(f, n) == [k \in 1..n |-> <<f.m, Len(f.responses) + 1, k>>]

\* core.py:500-510, 520-530: sp.playlist_tracks for the market in turn
PlaylistTracks(status, n, next) ==
  /\ spfetch.pc = "tracks"
  /\ LET g == [spfetch EXCEPT !.calls = Append(@, "playlist_tracks"),
                              !.responses = Append(@, Answer(spfetch.m, status, n, next))]
     IN spfetch' =
          IF status = 200
          THEN LET h == [g EXCEPT !.results = TRUE,
                                  !.items = @ \o PageItems(spfetch, n)]
               IN IF next THEN [h EXCEPT !.pc = "page"] ELSE Conclude(h)
          ELSE IF status \notin {403, 404}
          THEN Fails([g EXCEPT !.last_error = status],
                     <<"failed to fetch playlist tracks">>)
          ELSE IF spfetch.m < Len(spfetch.markets)
          THEN [g EXCEPT !.last_error = status, !.m = @ + 1]
          ELSE Conclude([g EXCEPT !.last_error = status])
  /\ UNCHANGED <<serviceVars, scroll, keyed, matching, admit, library, objects, page, diag, http, store, canon, capture>>

\* A 403 or 404 for a further page is handed to the loop over the markets.
NextPage_TriesNextMarket(status, n, next) ==
  /\ spfetch.pc = "page"
  /\ spfetch.pages < MaxPages \/ status # 200 \/ ~next
  /\ LET g == [spfetch EXCEPT !.calls = Append(@, "next"),
                              !.responses = Append(@, Answer(spfetch.m, status, n, next)),
                              !.pages = @ + 1]
     IN spfetch' =
          IF status \in {403, 404} /\ spfetch.m < Len(spfetch.markets)
          THEN [g EXCEPT !.last_error = status, !.m = @ + 1, !.pc = "tracks"]
          ELSE IF status # 200 THEN Fails(g, <<"failed to fetch next page of tracks">>)
          ELSE LET h == [g EXCEPT !.items = @ \o PageItems(spfetch, n)]
               IN IF next THEN h ELSE Conclude(h)
  /\ UNCHANGED <<serviceVars, scroll, keyed, matching, admit, library, objects, page, diag, http, store, canon, capture>>

\* core.py:512-519: sp.next for the following page of the same market
NextPage(status, n, next) ==
  /\ spfetch.pc = "page"
  /\ spfetch.pages < MaxPages \/ status # 200 \/ ~next
  /\ LET g == [spfetch EXCEPT !.calls = Append(@, "next"),
                              !.responses = Append(@, Answer(spfetch.m, status, n, next)),
                              !.pages = @ + 1]
     IN spfetch' =
          IF status # 200 THEN Fails(g, <<"failed to fetch next page of tracks">>)
          ELSE LET h == [g EXCEPT !.items = @ \o PageItems(spfetch, n)]
               IN IF next THEN h ELSE Conclude(h)
  /\ UNCHANGED <<serviceVars, scroll, keyed, matching, admit, library, objects, page, diag, http, store, canon, capture>>

\* Identifiers of 22 characters, one of 4 and none.
Rest(n) == [k \in 1..n |-> "0"]
PlaylistIds == {<<"3", "7", "i", "9", "d">> \o Rest(17), <<"3", "7", "i", "9">>,
                <<"3", "7", "i", "8">> \o Rest(18), <<"a", "3", "7", "i", "9">> \o Rest(17),
                <<>>}
Forms == {<<>>, <<"spotify:playlist:">>, <<"https://open.spotify.com/playlist/">>}
EnvEntries == {"", "jp", " us", "GB"}

InitFetch ==
  /\ InitService /\ scroll = NoScroll /\ keyed = NoTrack /\ matching = NoMatching
  /\ admit = NoAdmit /\ library = NoLibrary /\ objects = NoObjects /\ page = NoPage /\ diag = NoDiag /\ http = NoHttp /\ store = NoStore /\ canon = NoCanon /\ capture = NoCapture
  /\ \E id \in PlaylistIds, form \in Forms, credentials \in BOOLEAN,
        market_env \in Tuples(EnvEntries, MaxMarkets) :
       spfetch = [NoFetch EXCEPT
                    !.url_or_id = form \o id,
                    !.credentials = credentials, !.market_env = market_env,
                    !.pc = "start"]

NextFetch ==
  \/ Begin
  \/ \E ok \in BOOLEAN : PlaylistMeta(ok)
  \/ \E status \in Statuses, n \in 0..1, next \in BOOLEAN : PlaylistTracks(status, n, next)
  \/ \E status \in Statuses, n \in 0..1, next \in BOOLEAN : NextPage(status, n, next)

SpecFetch == InitFetch /\ [][NextFetch]_vars

\* C19 -- editorial short-circuit: a call for a playlist identifier that
\* begins with 37i9 never reads the credentials, creates the client or
\* sends a request, and ends in an error with a non-empty remediation
\* message.
C19_EditorialShortCircuit ==
  IsEditorial(extract_playlist_id(spfetch.url_or_id)) =>
    /\ spfetch.calls = <<>>
    /\ spfetch.pc = "done" =>
         /\ spfetch.outcome = "error"
         /\ spfetch.message # <<>> /\ spfetch.message = EditorialMessage

\* A call for an editorial playlist, with credentials set, has ended.
C19_Witness ==
  /\ spfetch.pc = "done" /\ spfetch.outcome = "error" /\ spfetch.credentials
  /\ spfetch.playlist_id = <<"3", "7", "i", "9">>
  /\ spfetch.url_or_id = <<"spotify:playlist:", "3", "7", "i", "9">>


\* C20 -- regional retry cascade: the markets are tried in their configured
\* order; a 403 or 404 from a market other than the last is followed by a
\* request to the next market; any other error ends the call at once; no
\* other market is asked after one that returned results; and the
\* region-restriction error comes only when every configured market has
\* been tried.
C20_RegionalRetry ==
  LET r == spfetch.responses
      last == Len(r)
  IN /\ \A n \in 1..last :
          IF n = 1 THEN r[n][1] = 1
          ELSE r[n][1] = r[n - 1][1] \/ r[n][1] = r[n - 1][1] + 1
     /\ \A n \in 1..last :
          /\ (r[n][2] \in {403, 404} /\ r[n][1] < Len(spfetch.markets))
               => IF n < last THEN r[n + 1][1] = r[n][1] + 1 ELSE spfetch.pc # "done"
          /\ r[n][2] \notin {200, 403, 404}
               => n = last /\ spfetch.pc = "done" /\ spfetch.outcome = "error"
          /\ (r[n][2] = 200 /\ n < last) => r[n + 1][1] = r[n][1]
     /\ (spfetch.pc = "done" /\ spfetch.message = RegionMessage)
          => \A m \in 1..Len(spfetch.markets) : \E n \in 1..last : r[n][1] = m


\* ---------------------------------------------------------------------
\* What the request layer lets through (app.get_playlist, src/app.py:245-375).
\* A url is a sequence of tokens: optional wrapping, scheme, host, path,
\* identifier, optional query; a raw identifier is a single token.
\* ---------------------------------------------------------------------

Schemes == {"https://", "http://"}
CatalogHosts == {"open.spotify.com", "music.apple.com"}
Hosts == CatalogHosts \cup {"127.0.0.1", "open.spotify.com.evil.test"}
RawId == "37i9dQZF1DXcBWIGoYBM5M"
AppleQuery == "?ref=music.apple.com"

\* str.strip(chars) on a token sequence
StripTokens(s, chars) ==
  LET keep == {n \in 1..Len(s) : s[n] \notin chars}
  IN IF keep = {} THEN <<>> ELSE SubSeq(s, SetMin(keep), SetMax(keep))

\* app._sanitize_url
_sanitize_url(raw) ==
  IF raw = <<>> THEN raw
  ELSE LET s == StripTokens(raw, {" "})
           t == IF s # <<>> /\ Head(s) = "<" /\ s[Len(s)] = ">"
                THEN StripTokens(SubSeq(s, 2, Len(s) - 1), {" "})
                ELSE s
       IN StripTokens(t, {"'", "\""})

\* urlparse(s).netloc, for a url that starts with a scheme
Netloc(s) == IF Len(s) >= 2 /\ Head(s) \in Schemes THEN s[2] ELSE ""

\* "open.spotify.com" in host
NamesSpotify(host) == host \in {"open.spotify.com", "open.spotify.com.evil.test"}

\* "music.apple.com" in s.lower()
NamesApple(s) == \E n \in 1..Len(s) : s[n] \in {"music.apple.com", AppleQuery}

\* core.extract_playlist_id on a tokenised url: TRUE when an identifier
\* comes out of it, FALSE when it raises RuntimeError
HasPlaylistId(s) ==
  \/ /\ NamesSpotify(Netloc(s))
     /\ \E n \in 1..Len(s) - 1 : s[n] = "/playlist/"
  \/ s = <<RawId>>

\* app.py:262-271 -- sanitize, normalize, choose the source
Sanitize ==
  /\ Quiet
  /\ admit.pc = "start"
  /\ LET clean_url == _sanitize_url(admit.url)
     IN admit' = [admit EXCEPT
          !.pc = "sanitized",
          !.clean_url = clean_url,
          !.src = IF NamesApple(clean_url) THEN "apple" ELSE admit.source]
  /\ UNCHANGED <<serviceVars, scroll, keyed, matching, spfetch, library, objects, page, diag, http, store, canon, capture>>

\* app.py:291-375 with core.fetch_playlist_tracks_generic: the url goes
\* to the fetcher of its source; an Apple url is requested from the host
\* it names, a Spotify url only gives its identifier to the API client.
\* Every exception becomes HTTP 400. fetched: whether the remote answer
\* held tracks.
Dispatch(fetched) ==
  /\ Quiet
  /\ admit.pc = "sanitized"
  /\ LET s == admit.clean_url
         goes == IF admit.src = "apple" THEN NamesApple(s) /\ Netloc(s) # ""
                 ELSE HasPlaylistId(s)
         to == IF admit.src = "apple" THEN Netloc(s) ELSE "api.spotify.com"
     IN /\ fetched => goes
        /\ admit' = [admit EXCEPT
             !.pc = "done",
             !.sent_to = IF goes THEN to ELSE "none",
             !.status = IF fetched THEN 200 ELSE 400]
  /\ UNCHANGED <<serviceVars, scroll, keyed, matching, spfetch, library, objects, page, diag, http, store, canon, capture>>

Wraps == {<<<<>>, <<>>>>, <<<<"<">>, <<">">>>>, <<<<" ", "\"">>, <<"\"">>>>}
UrlBodies ==
  {<<sc, h, pa, RawId>> : sc \in Schemes, h \in Hosts, pa \in {"/playlist/", "/album/"}}
  \cup {<<sc, h, "/playlist/", RawId, AppleQuery>> : sc \in Schemes, h \in Hosts}
  \cup {<<RawId>>, <<"abc">>}

InitAdmit ==
  /\ InitService /\ scroll = NoScroll /\ keyed = NoTrack /\ matching = NoMatching
  /\ spfetch = NoFetch /\ library = NoLibrary /\ objects = NoObjects /\ page = NoPage /\ diag = NoDiag /\ http = NoHttp /\ store = NoStore /\ canon = NoCanon /\ capture = NoCapture
  /\ \E w \in Wraps, body \in UrlBodies, source \in {"spotify", "apple"} :
       admit = [NoAdmit EXCEPT !.url = w[1] \o body \o w[2], !.source = source,
                               !.pc = "start"]

NextAdmit == Sanitize \/ \E fetched \in BOOLEAN : Dispatch(fetched)

SpecAdmit == InitAdmit /\ [][NextAdmit]_vars

\* The allowlist of the claim: an https url on a catalog host, or a raw id
Allowed(s) ==
  \/ Len(s) >= 2 /\ Head(s) = "https://" /\ s[2] \in CatalogHosts
  \/ s = <<RawId>>

\* C21: a url whose host is not a catalog host, or whose scheme is not
\* https, is rejected with HTTP 422 and nothing is sent anywhere; an
\* allowed url or raw id is never rejected with 422.
C21_UrlAllowlist ==
  admit.pc = "done" /\ admit.url # <<>> =>
    IF Allowed(admit.clean_url) THEN admit.status # 422
    ELSE admit.status = 422 /\ admit.sent_to = "none"


\* ---------------------------------------------------------------------
\* Loading the Rekordbox library.  Two modules define
\* load_rekordbox_library_xml and mark_owned_tracks: src/rekordbox.py,
\* which the request layer imports (app.py:31), and
\* src/lib/rekordbox (parser.py, matcher.py).  Sizes are in MB.
\* ---------------------------------------------------------------------

MAX_XML_SIZE_MB == 20
FileSizes == {1, MAX_XML_SIZE_MB, MAX_XML_SIZE_MB + 1}
\* The files a path may name, and NoFile for a path that names none.
Files == [size : FileSizes, mtime : 1..2, collection : BOOLEAN, exists : {TRUE}]
         \cup {NoFile}
LoaderModules == {"rekordbox", "lib.rekordbox"}

\* _get_file_hash: f"{st_size}_{st_mtime_ns}"
_get_file_hash(file) == <<file.size, file.mtime>>

\* The load ends with an exception; failed remembers which file it was.
LoadEndsWith(how) ==
  [library EXCEPT !.pc = "done", !.outcome = how,
                  !.failed = @ \cup {[file |-> library.file, error |-> how]}]
LoadEnds(how) == library' = LoadEndsWith(how)

\* mark_owned_tracks calls the loader of its own module; both loaders raise
\* FileNotFoundError for a path that names no file (rekordbox.py:168-170,
\* parser.py:54-56); parser.py:58-66 raises OverflowError for a file above
\* the limit, rekordbox.py goes on to the cache lookup.
LoadBegin ==
  /\ Quiet
  /\ library.pc = "start"
  /\ IF ~library.file.exists
     THEN LoadEnds("FileNotFoundError")
     ELSE IF library.via = "lib.rekordbox" /\ library.file.size > MAX_XML_SIZE_MB
     THEN LoadEnds("OverflowError")
     ELSE library' = [library EXCEPT !.pc = "lookup"]
  /\ UNCHANGED <<serviceVars, scroll, keyed, matching, spfetch, admit, objects, page, diag, http, store, canon, capture>>

\* rekordbox.py:173-176, parser.py:70-74: a cached library is returned
LoadCached ==
  /\ Quiet
  /\ library.pc = "lookup"
  /\ _get_file_hash(library.file) \in library._rekordbox_cache
  /\ library' = [library EXCEPT !.pc = "done", !.outcome = "library"]
  /\ UNCHANGED <<serviceVars, scroll, keyed, matching, spfetch, admit, objects, page, diag, http, store, canon, capture>>

\* rekordbox.py:178-238, parser.py:76-146: parse the file, build the four
\* indexes and cache them under the file's hash.  slow: the parse took
\* longer than timeout_sec, which only parser.py looks at (parser.py:83-84),
\* before it looks for COLLECTION.
LoadParse(slow) ==
  /\ Quiet
  /\ library.pc = "lookup"
  /\ _get_file_hash(library.file) \notin library._rekordbox_cache
  /\ slow => library.via = "lib.rekordbox"
  /\ IF slow
     THEN library' = [LoadEndsWith("TimeoutError") EXCEPT !.parsed = TRUE]
     ELSE IF library.file.collection
     THEN library' = [library EXCEPT
            !.pc = "done", !.parsed = TRUE, !.outcome = "library",
            !._rekordbox_cache = @ \cup {_get_file_hash(library.file)}]
     ELSE library' = [LoadEndsWith("ValueError") EXCEPT !.parsed = TRUE]
  /\ UNCHANGED <<serviceVars, scroll, keyed, matching, spfetch, admit, objects, page, diag, http, store, canon, capture>>

\* The next playlist is matched against a library file, through the same
\* module; the module's cache lives on.
LoadAgain ==
  /\ Quiet
  /\ library.pc = "done"
  /\ library.via # "none"
  /\ library.loads < MaxLoads
  /\ \E file \in Files :
       library' = [library EXCEPT !.pc = "start", !.file = file, !.parsed = FALSE,
                                  !.outcome = "none", !.loads = @ + 1]
  /\ UNCHANGED <<serviceVars, scroll, keyed, matching, spfetch, admit, objects, page, diag, http, store, canon, capture>>

InitLibrary ==
  /\ InitService /\ scroll = NoScroll /\ keyed = NoTrack /\ matching = NoMatching
  /\ spfetch = NoFetch /\ admit = NoAdmit /\ objects = NoObjects /\ page = NoPage /\ diag = NoDiag /\ http = NoHttp /\ store = NoStore /\ canon = NoCanon /\ capture = NoCapture
  /\ \E via \in LoaderModules, file \in Files :
       library = [NoLibrary EXCEPT !.via = via, !.file = file, !.pc = "start",
                                   !.loads = 1]

NextLibrary == LoadBegin \/ LoadCached \/ (\E slow \in BOOLEAN : LoadParse(slow)) \/ LoadAgain

SpecLibrary == InitLibrary /\ [][NextLibrary]_vars

\* C22: when the loader the request layer calls (module rekordbox) has
\* ended on a file above the size limit, it has ended with the
\* resource-limit error, has not parsed the file, and no index is cached
\* for the file.
C22_SizeCeiling ==
  /\ library.via = "rekordbox"
  /\ library.pc = "done"
  /\ library.file.size > MAX_XML_SIZE_MB
  => /\ library.outcome = "OverflowError"
     /\ ~library.parsed
     /\ _get_file_hash(library.file) \notin library._rekordbox_cache


\* ---------------------------------------------------------------------
\* Result dicts and the references to them.  A result is a Python dict:
\* the caches hold references, and whoever holds a reference changes the
\* one dict.  heap[ref] is the dict; a result of an Apple playlist has
\* two tracks, the first without ISRC.
\* ---------------------------------------------------------------------

EnrichKeys == {0, 1}      \* the enrich= part of the cache key (app.py:289)
FreshResult == [isrc |-> <<"", "X">>,
                meta |-> [apple_enrich_skipped |-> FALSE, isrc_enriched |-> -1]]

\* core.enrich_isrc_for_items: fills the missing ISRCs in place, where
\* MusicBrainz finds one, and returns how many it filled
enrich_isrc_for_items(isrc, found) ==
  [n \in 1..Len(isrc) |-> IF isrc[n] = "" /\ found THEN "MB" ELSE isrc[n]]

Updated(isrc, found) == Cardinality({n \in 1..Len(isrc) : isrc[n] = "" /\ found})

\* core.py:2806-2839: the tail of the Apple branch of
\* fetch_playlist_tracks_generic writes into the result's meta
GenericTail(o, enrich_spotify) ==
  IF enrich_spotify = 1 THEN o
  ELSE [o EXCEPT !.meta.apple_enrich_skipped = TRUE]

\* app.py:305-314: optional ISRC enrichment on the result, whether it
\* came from the cache or from a fetch
IsrcPass(o, enrich_isrc, found) ==
  IF enrich_isrc
  THEN [o EXCEPT !.isrc = enrich_isrc_for_items(o.isrc, found),
                 !.meta.isrc_enriched = Updated(o.isrc, found)]
  ELSE o

\* One GET /api/playlist of the one Apple url in auto mode (app.py:286-328
\* with core.py:2783-2839).  http_ok: HttpFirst gave tracks, the result is
\* a new dict; otherwise the result is the dict of the web cache, or a new
\* dict that the web cache keeps.
Serve(enrich_spotify, enrich_isrc, refresh, http_ok, found) ==
  /\ Quiet
  /\ Len(objects.heap) < NumReq
  /\ LET key == enrich_spotify
         cached == IF refresh = 1 THEN 0 ELSE objects.playlist_cache[key]
         hit == cached # 0
         new == Len(objects.heap) + 1
         web_hit == ~http_ok /\ objects.web_cache # 0
         ref == IF hit THEN cached
                ELSE IF web_hit THEN objects.web_cache ELSE new
         heap0 == IF ref = new THEN Append(objects.heap, FreshResult) ELSE objects.heap
         fetched == IF hit THEN heap0[ref] ELSE GenericTail(heap0[ref], enrich_spotify)
         res == IsrcPass(fetched, enrich_isrc, found)
         write_back == refresh = 0 /\ ~hit
     IN objects' = [objects EXCEPT
          !.heap = [heap0 EXCEPT ![ref] = res],
          !.web_cache = IF ~hit /\ ~http_ok THEN ref ELSE @,
          !.playlist_cache = IF write_back THEN [@ EXCEPT ![key] = ref] ELSE @,
          !.stored = IF write_back THEN [@ EXCEPT ![key] = res] ELSE @,
          !.returned = ref]
  /\ UNCHANGED <<serviceVars, scroll, keyed, matching, spfetch, admit, library, page, diag, http, store, canon, capture>>

InitObjects ==
  /\ InitService /\ scroll = NoScroll /\ keyed = NoTrack /\ matching = NoMatching
  /\ spfetch = NoFetch /\ admit = NoAdmit /\ library = NoLibrary /\ page = NoPage /\ diag = NoDiag /\ http = NoHttp /\ store = NoStore /\ canon = NoCanon /\ capture = NoCapture
  /\ objects = [NoObjects EXCEPT !.playlist_cache = [k \in EnrichKeys |-> 0],
                                 !.stored = [k \in EnrichKeys |-> FreshResult]]

NextObjects ==
  \E enrich_spotify \in EnrichKeys, enrich_isrc \in BOOLEAN, refresh \in {0, 1},
     http_ok \in BOOLEAN, found \in BOOLEAN :
       Serve(enrich_spotify, enrich_isrc, refresh, http_ok, found)

SpecObjects == InitObjects /\ [][NextObjects]_vars

\* C23: every entry of the playlist cache holds the tracks and the meta
\* that were stored for it, whatever requests were served since.
C23_CachedByValue ==
  \A key \in EnrichKeys :
    objects.playlist_cache # <<>> /\ objects.playlist_cache[key] # 0 =>
      objects.heap[objects.playlist_cache[key]] = objects.stored[key]


\* ---------------------------------------------------------------------
\* normalize_title_base on titles with annotations
\* ---------------------------------------------------------------------

\* normalize_title_base applied to the track's title
NormalizeTitle ==
  /\ Quiet
  /\ keyed.out = NoKeys
  /\ keyed # NoTrack
  /\ keyed' = [keyed EXCEPT !.out = [primary |-> normalize_title_base(keyed.title),
                                     fallback |-> <<>>, type |-> "title_base"]]
  /\ UNCHANGED <<serviceVars, scroll, matching, spfetch, admit, library, objects, page, diag, http, store, canon, capture>>

AnnotationChars == {"a", " ", "-", "Radio Edit", "(", ")", "[", "]"}
\* "A B (Original Mix)" and "A [D] - Radio Edit"
AnnotatedTitles == {<<"A", " ", "B", " ", "(", "Original Mix", ")">>,
                    <<"A", " ", "[", "D", "]", " ", "-", " ", "Radio Edit">>,
                    <<"a", " ", "-", " ", "Radio Edit">>}

InitTitles ==
  /\ InitService /\ scroll = NoScroll /\ matching = NoMatching /\ spfetch = NoFetch
  /\ admit = NoAdmit /\ library = NoLibrary /\ objects = NoObjects /\ page = NoPage /\ diag = NoDiag /\ http = NoHttp /\ store = NoStore /\ canon = NoCanon /\ capture = NoCapture
  /\ keyed \in [title : Strings(AnnotationChars, MaxLen + 1) \cup AnnotatedTitles,
                artist : {<<>>}, album : {<<>>}, isrc : {<<"None">>}, out : {NoKeys}]

SpecTitles == InitTitles /\ [][NormalizeTitle]_vars

Bracketless(s) == \A n \in 1..Len(s) : s[n] \notin {"(", ")", "[", "]"}

\* C24: titles that differ only by an annotation normalize to the same
\* string: a title without brackets and the same title followed by a
\* parenthesised or a bracketed part have the same normalized title,
\* which is in lower case and holds no doubled space.
C24_AnnotationsRemoved ==
  keyed.out.type = "title_base" /\ Bracketless(keyed.title) =>
    /\ \A pair \in {<<"(", ")">>, <<"[", "]">>} :
         normalize_title_base(keyed.title \o <<" ", pair[1], "B", pair[2]>>)
           = keyed.out.primary
    /\ Lower(keyed.out.primary) = keyed.out.primary
    /\ CollapseSpaces(keyed.out.primary) = keyed.out.primary


\* ---------------------------------------------------------------------
\* The order of the strategies (specification SpecWeb)
\* ---------------------------------------------------------------------

CascadeOrder == <<"http_first", "browser_fast", "browser_legacy">>
IsPrefix(s, t) == Len(s) <= Len(t) /\ s = SubSeq(t, 1, Len(s))
ServedByStrategy(how) == how \in {"http_first", "browser_fast", "browser_legacy"}

\* C25 -- first success wins: for a scrape request in auto mode the
\* strategies started are, in order, a prefix of HttpFirst, BrowserFast,
\* BrowserLegacy; a result that a strategy yields has at least one track
\* and is the result of the strategy started last; once the request has
\* its result no strategy is started any more; BrowserFast starts only
\* while HttpFirst has given no result, and BrowserLegacy only after
\* BrowserFast has raised its failure.
C25_FirstSuccessWins ==
  [][\A r \in Reqs :
       (p'[r].src = "apple" /\ p'[r].mode = "auto") =>
         /\ IsPrefix(started'[r], CascadeOrder)
         /\ (outcome'[r] = "ok" /\ ServedByStrategy(served'[r])) =>
              /\ result'[r].n >= 1
              /\ result'[r].by = served'[r]
              /\ served'[r] = started'[r][Len(started'[r])]
         /\ outcome[r] = "ok" => started'[r] \in {started[r], <<>>}
         /\ (Len(started'[r]) = 2 /\ started'[r] # started[r]) =>
              result[r] = NoResult /\ outcome[r] = "none"
         /\ (Len(started'[r]) = 3 /\ started'[r] # started[r]) =>
              /\ fast_error'[r].raised
              /\ result[r] = NoResult /\ outcome[r] = "none"]_vars

\* An auto request that went through all three strategies and is answered
\* by the last one.
C25_Witness ==
  \E r \in Reqs :
     /\ p[r].src = "apple" /\ p[r].mode = "auto"
     /\ started[r] = CascadeOrder
     /\ outcome[r] = "ok" /\ served[r] = "browser_legacy"
     /\ result[r].by = "browser_legacy"


\* ---------------------------------------------------------------------
\* One run of a browser strategy on its page, from the new page to the
\* strategy's return or failure (run_fast_playwright, core.py:961-1527;
\* run_legacy_playwright, core.py:1572-2068).
\* ---------------------------------------------------------------------

SetupSteps_GotoFirst(strategy) ==
  IF strategy = "fast" THEN <<"route", "goto", "listen">> ELSE <<"goto", "listen">>

\* The statements between the new page and the end of the navigation, in
\* program order: resource blocking (fast only, core.py:965-972), the four
\* page.on registrations (core.py:977-980, 1582-1585), page.goto
\* (core.py:988, 1595).
SetupSteps(strategy) ==
  IF strategy = "fast" THEN <<"route", "listen", "goto">> ELSE <<"listen", "goto">>

NextStep(pg) ==
  IF pg.pc = "setup" /\ pg.pos <= Len(SetupSteps(pg.strategy))
  THEN SetupSteps(pg.strategy)[pg.pos] ELSE "none"

PageFrame == UNCHANGED <<serviceVars, scroll, keyed, matching, spfetch, admit, library, objects, diag, http, store, canon, capture>>

\* page.route("**/*", route_handler)
Route ==
  /\ Quiet
  /\ NextStep(page) = "route"
  /\ page' = [page EXCEPT !.pos = @ + 1]
  /\ PageFrame

\* page.on("response" | "request" | "console" | "pageerror", ...)
RegisterListeners ==
  /\ Quiet
  /\ NextStep(page) = "listen"
  /\ page' = [page EXCEPT !.pos = @ + 1, !.listeners = TRUE]
  /\ PageFrame

\* page.goto(url, ...) is called: the navigation begins
GotoBegins ==
  /\ Quiet
  /\ NextStep(page) = "goto"
  /\ page' = [page EXCEPT !.pos = @ + 1, !.navigated = TRUE]
  /\ PageFrame

PageFails(pg, reason) == [pg EXCEPT !.pc = "done", !.outcome = "raised", !.reason = reason]
PageReturns(pg, method) == [pg EXCEPT !.pc = "done", !.outcome = "returned", !.method = method]

\* The navigation produces a request or a response.  A registered
\* listener runs on_request_handler / on_response_handler
\* (core.py:830-897); with no listener the event is gone.
PageEvent(kind) ==
  /\ Quiet
  /\ page.navigated
  /\ page.pc # "done"
  /\ page' =
       IF ~page.listeners THEN [page EXCEPT !.lost = TRUE]
       ELSE [page EXCEPT
               !.seen = @ \/ kind \in {"catalog_request", "catalog_tracks", "catalog_no_tracks"},
               !.heard = @ \/ kind # "catalog_request",
               !.captured = IF @ = "none" /\ kind = "catalog_tracks" THEN "tracks"
                            ELSE IF @ = "none" /\ kind = "catalog_no_tracks" THEN "no_tracks"
                            ELSE @]
  /\ PageFrame

\* page.goto returns with the status of the main response (core.py:988-1017,
\* 1595-1623); 0 stands for its TimeoutError, which is no AppleFetchError.
GotoEnds(status) ==
  /\ Quiet
  /\ page.pc = "setup"
  /\ page.pos > Len(SetupSteps(page.strategy))
  /\ page' = IF status = 0 THEN [page EXCEPT !.pc = "done", !.outcome = "crashed"]
             ELSE IF status >= 400 THEN PageFails(page, "http_status")
             ELSE [page EXCEPT !.pc = "loaded"]
  /\ PageFrame

\* core.py:1222-1246: the fast strategy scans the title and the first 2 KB
\* of the page for the blocked-page keywords.
DetectBlocked(blocked) ==
  /\ Quiet
  /\ page.strategy = "fast"
  /\ page.pc = "loaded"
  /\ page' = [page EXCEPT !.pc = "scanned", !.blocked_hint = blocked]
  /\ PageFrame

DomIsGood_Never(rows) == FALSE

\* core.py:1287, 1860: the DOM result is good with five rows or more
DomIsGood(rows) == rows >= 5

\* DOM row extraction with its outcome (core.py:1260-1297, 1834-1874).
\* fast: a good DOM result is returned at once, anything less goes to the
\* API wait.  legacy: any DOM rows are the result, none goes to the wait.
ExtractDom(rows) ==
  /\ Quiet
  /\ page.pc = IF page.strategy = "fast" THEN "scanned" ELSE "loaded"
  /\ page' =
       IF DomIsGood(rows) \/ (page.strategy = "legacy" /\ rows > 0)
       THEN PageReturns([page EXCEPT !.rows = rows], "dom_rows")
       ELSE [page EXCEPT !.rows = rows, !.pc = "api_wait", !.waited = TRUE]
  /\ PageFrame

\* The API wait is over, by a captured response or by its timeout
\* (core.py:1307-1341 and 1876-1980).  fallback: the embedded JSON of the
\* page holds tracks (legacy only).
ApiWaitEnds(fallback) ==
  /\ Quiet
  /\ page.pc = "api_wait"
  /\ page.strategy = "fast" => ~fallback
  /\ page' =
       IF page.captured = "tracks"
       THEN PageReturns(page, IF page.strategy = "fast" THEN "catalog_api" ELSE "api_json")
       ELSE IF page.strategy = "fast"
       THEN IF page.rows > 0 THEN PageReturns(page, "dom_rows")
            ELSE PageFails(page, "none")
       ELSE IF fallback THEN PageReturns(page, "json_fallback")
            ELSE PageFails(page, IF ~page.seen THEN "no_dom_rows_no_api"
                                 ELSE IF page.heard THEN "api_not_parseable"
                                 ELSE "no_apple_api_detected")
  /\ PageFrame

PageEvents == {"catalog_request", "catalog_tracks", "catalog_no_tracks", "other_response"}
DomRows == {0, 1, 5}

InitPage ==
  /\ InitService /\ scroll = NoScroll /\ keyed = NoTrack /\ matching = NoMatching
  /\ spfetch = NoFetch /\ admit = NoAdmit /\ library = NoLibrary /\ objects = NoObjects
  /\ diag = NoDiag /\ http = NoHttp /\ store = NoStore /\ canon = NoCanon /\ capture = NoCapture
  /\ \E strategy \in {"fast", "legacy"} :
       page = [NoPage EXCEPT !.strategy = strategy, !.pc = "setup"]

NextOnPage ==
  \/ Route
  \/ RegisterListeners
  \/ GotoBegins
  \/ \E kind \in PageEvents : PageEvent(kind)
  \/ \E status \in {0, 200, 404} : GotoEnds(status)
  \/ \E blocked \in BOOLEAN : DetectBlocked(blocked)
  \/ \E rows \in DomRows : ExtractDom(rows)
  \/ \E fallback \in BOOLEAN : ApiWaitEnds(fallback)

SpecPage == InitPage /\ [][NextOnPage]_vars

\* C26 -- listeners before navigation: in both strategies, once the
\* navigation has begun the listeners are registered, and no event of the
\* navigation has arrived without a listener.
C26_ListenersFirst ==
  /\ page.navigated => page.listeners
  /\ ~page.lost

\* A catalog response has been captured while page.goto was still awaited.
C26_Witness ==
  /\ page.strategy \in {"fast", "legacy"}
  /\ page.navigated /\ page.captured = "tracks" /\ page.pc = "setup"

\* C27 as stated: whenever the fast strategy's DOM extraction yielded
\* tracks, it has returned the DOM result without entering the API wait.
C27_DomReturnsAtOnce ==
  (page.strategy = "fast" /\ page.rows > 0) =>
     /\ ~page.waited
     /\ page.outcome = "returned" /\ page.method = "dom_rows"

\* C27, amended: a fast strategy whose DOM extraction yielded five tracks
\* or more has returned the DOM result without entering the API wait, and
\* the API wait is entered only after a DOM extraction of fewer than five.
C27_GoodDomReturnsAtOnce ==
  page.strategy = "fast" =>
     /\ page.rows >= 5 =>
          ~page.waited /\ page.outcome = "returned" /\ page.method = "dom_rows"
     /\ page.waited => page.rows < 5

\* The fast strategy returned a good DOM result while a catalog response
\* with tracks was already captured.
C27_Witness ==
  /\ page.strategy = "fast" /\ page.rows = 5 /\ page.captured = "tracks"
  /\ page.outcome = "returned" /\ page.method = "dom_rows" /\ ~page.waited

\* C28 -- a failure that the fast strategy raises with zero tracks on a
\* page it detected as blocked carries the reason blocked_variant.
C28_BlockedReason ==
  (page.strategy = "fast" /\ page.outcome = "raised" /\ page.blocked_hint
     /\ page.rows = 0) => page.reason = "blocked_variant"


\* ---------------------------------------------------------------------
\* Diagnostics of a strategy run (core.py:749-897, 976-980): the lists the
\* listeners fill, by their lengths, and the meta a result or an error
\* carries, as a set of <<key, length>> pairs (length 0 for a key that is
\* no list).
\* ---------------------------------------------------------------------

ListKeys == {"apple_api_candidates", "apple_response_candidates", "apple_request_candidates",
             "apple_xhr_fetch_requests", "json_responses_any_domain",
             "apple_console_errors", "apple_page_errors"}
DEBUG_META_KEYS ==
  ListKeys \cup {"apple_row_count_progression", "apple_row_count_final",
                 "apple_row_count_iters", "apple_last_track_key_progression",
                 "apple_unique_track_keys_progression", "apple_last_row_text_progression",
                 "apple_tracklist_selector", "apple_page_title", "apple_html_snippet",
                 "apple_timing"}

AppendCapped_Unbounded(n, cap) == n + 1

\* `if len(xs) < cap: xs.append(...)`
AppendCapped(n, cap) == IF n < cap THEN n + 1 ELSE n

\* xs[:cap]
Slice(n, cap) == IF n < cap THEN n ELSE cap

\* core._apply_debug_filter
_apply_debug_filter(meta, debug) ==
  IF debug THEN meta ELSE {kv \in meta : kv[1] \notin DEBUG_META_KEYS}

\* core._set_debug_meta, for the keys the strategy sets on meta_local
\* (core.py:1074-1181, 1305)
meta_local(debug) ==
  IF debug THEN {<<"apple_page_title", 0>>, <<"apple_html_snippet", 0>>, <<"apple_timing", 0>>}
  ELSE {}

DiagFrame ==
  UNCHANGED <<serviceVars, scroll, keyed, matching, spfetch, admit, library, objects, page, http, store, canon, capture>>

\* One event on the page, handled by on_response_handler,
\* on_request_handler or the console / pageerror lambdas: a JSON response
\* of the catalog API on an Apple host, an xhr request to an Apple host, a
\* console message, a page error.
DiagEvent(kind) ==
  /\ Quiet
  /\ diag.pc = "listening"
  /\ diag.events < MaxEvents
  /\ LET l == diag.lists IN
     diag' = [diag EXCEPT
       !.events = @ + 1,
       !.lists =
         CASE kind = "response" ->
                [l EXCEPT !.response_candidates = AppendCapped(@, DIAG_CAP),
                          !.json_responses_any_domain = AppendCapped(@, DIAG_CAP),
                          !.api_candidates = AppendCapped(@, DIAG_CAP)]
           [] kind = "request" ->
                [l EXCEPT !.request_candidates = AppendCapped(@, DIAG_CAP),
                          !.xhr_fetch_requests = AppendCapped(@, XHR_CAP)]
           [] kind = "console" -> [l EXCEPT !.console_errors = AppendCapped(@, DIAG_CAP)]
           [] OTHER -> [l EXCEPT !.page_errors = AppendCapped(@, DIAG_CAP)]]
  /\ DiagFrame

\* The page answered with an error status: the error's meta
\* (core.py:995-1017, 1602-1623)
RaiseHttpStatus ==
  /\ Quiet
  /\ diag.pc = "listening"
  /\ LET error_meta == meta_local(diag.debug)
           \cup {<<"reason", 0>>, <<"apple_api_candidates", 0>>,
                 <<"apple_response_candidates", 0>>, <<"apple_request_candidates", 0>>,
                 <<"apple_legacy_used", 0>>, <<"timings", 0>>}
     IN diag' = [diag EXCEPT !.pc = "done",
                             !.meta = _apply_debug_filter(error_meta, diag.debug)]
  /\ DiagFrame

\* The lists as the meta shows them: api_candidates always, the others
\* when they are not empty (core.py:1461-1474, 2002-2015)
ListsShown(l) ==
  {<<"apple_api_candidates", Slice(l.api_candidates, DIAG_CAP)>>}
  \cup {kv \in {<<"apple_response_candidates", Slice(l.response_candidates, DIAG_CAP)>>,
                <<"apple_request_candidates", Slice(l.request_candidates, DIAG_CAP)>>,
                <<"apple_xhr_fetch_requests", Slice(l.xhr_fetch_requests, XHR_CAP)>>,
                <<"json_responses_any_domain", Slice(l.json_responses_any_domain, DIAG_CAP)>>,
                <<"apple_console_errors", Slice(l.console_errors, DIAG_CAP)>>,
                <<"apple_page_errors", Slice(l.page_errors, DIAG_CAP)>>} : kv[2] > 0}

\* The strategy returns its result: the result's meta (core.py:1456-1527,
\* 1997-2068)
ReturnResult ==
  /\ Quiet
  /\ diag.pc = "listening"
  /\ LET meta_out == (IF diag.debug THEN ListsShown(diag.lists) \cup meta_local(TRUE) ELSE {})
           \cup {<<"timings", 0>>, <<"seen_catalog_playlist_api", 0>>,
                 <<"apple_legacy_used", 0>>, <<"apple_extraction_method", 0>>}
     IN diag' = [diag EXCEPT
          !.pc = "done",
          !.meta = _apply_debug_filter(meta_out, diag.debug) \cup meta_local(diag.debug)]
  /\ DiagFrame

InitDiag ==
  /\ InitService /\ scroll = NoScroll /\ keyed = NoTrack /\ matching = NoMatching
  /\ spfetch = NoFetch /\ admit = NoAdmit /\ library = NoLibrary /\ objects = NoObjects
  /\ page = NoPage /\ http = NoHttp /\ store = NoStore /\ canon = NoCanon /\ capture = NoCapture
  /\ \E debug \in BOOLEAN : diag = [NoDiag EXCEPT !.debug = debug, !.pc = "listening"]

NextDiag ==
  \/ \E kind \in {"response", "request", "console", "pageerror"} : DiagEvent(kind)
  \/ RaiseHttpStatus
  \/ ReturnResult

SpecDiag == InitDiag /\ [][NextDiag]_vars

CapOf(key) == IF key = "apple_xhr_fetch_requests" THEN XHR_CAP ELSE DIAG_CAP

\* C29 -- bounded diagnostics: every diagnostic list holds at most its
\* cap (20 entries, 10 for the xhr/fetch requests) after any events, no
\* list in a meta is longer than its cap, and with debug mode off the meta
\* of a returned result or of a raised error holds no debug-only key.
C29_BoundedDiagnostics ==
  /\ \A f \in DOMAIN diag.lists :
       diag.lists[f] <= IF f = "xhr_fetch_requests" THEN XHR_CAP ELSE DIAG_CAP
  /\ \A kv \in diag.meta :
       /\ kv[2] <= CapOf(kv[1])
       /\ kv[1] \in DEBUG_META_KEYS => diag.debug

\* With debug mode off, a result is returned after more catalog responses
\* than the cap, of which the list holds the first 20.
C29_Witness ==
  /\ ~diag.debug /\ diag.pc = "done" /\ diag.meta # {}
  /\ diag.events > DIAG_CAP
  /\ diag.lists.response_candidates = DIAG_CAP


\* ---------------------------------------------------------------------
\* HttpFirst: fetch_apple_playlist_http_first (core.py:2697-2750) and the
\* call of it in fetch_playlist_tracks_generic (core.py:2783-2793)
\* ---------------------------------------------------------------------

GetAnswers == {"tracks", "no_tracks", "empty_body", "status_error", "network_error"}
GetFailed(answer) == answer \in {"status_error", "network_error"}

HttpFrame ==
  UNCHANGED <<serviceVars, scroll, keyed, matching, spfetch, admit, library, objects, page, diag, store, canon, capture>>

\* core.py:2702-2708: a url that does not name music.apple.com is refused
\* with ValueError before anything is fetched
HttpBegin ==
  /\ Quiet
  /\ http.pc = "start"
  /\ http' = IF http.apple THEN [http EXCEPT !.pc = "get"]
             ELSE [http EXCEPT !.pc = "returned", !.outcome = "ValueError"]
  /\ HttpFrame

NoHtml_Raises(h) == [h EXCEPT !.pc = "returned", !.outcome = "raised"]

\* core.py:2739-2741: without html the call returns None
NoHtml(h) == [h EXCEPT !.pc = "returned", !.outcome = "None"]

\* One turn of the loop (core.py:2725-2737): a GET and its answer.  A
\* good status ends the loop; a bad status or a network error is caught,
\* and the loop goes on while attempts are left.
HttpGet(answer) ==
  /\ Quiet
  /\ http.pc = "get"
  /\ LET h == [http EXCEPT !.answers = Append(@, answer)] IN
     http' = IF ~GetFailed(answer) THEN [h EXCEPT !.pc = "parse", !.html = answer]
             ELSE IF Len(h.answers) < APPLE_HTTP_RETRIES + 1 THEN h
             ELSE NoHtml(h)
  /\ HttpFrame

\* core.py:2739-2750: an empty body gives None, otherwise what
\* _parse_apple_html_payload gives: a result with tracks, or None
HttpParse ==
  /\ Quiet
  /\ http.pc = "parse"
  /\ http' = IF http.html = "empty_body" THEN NoHtml(http)
             ELSE IF http.html = "tracks"
             THEN [http EXCEPT !.pc = "returned", !.outcome = "result"]
             ELSE [http EXCEPT !.pc = "returned", !.outcome = "None"]
  /\ HttpFrame

\* asyncio.wait_for(..., APPLE_HTTP_TIMEOUT_S) gives up on the call
\* (core.py:2785-2788)
HttpTimeout ==
  /\ Quiet
  /\ http.pc \in {"get", "parse"}
  /\ http' = [http EXCEPT !.pc = "returned", !.outcome = "cancelled"]
  /\ HttpFrame

\* core.py:2789-2793: every exception of the call is swallowed, and
\* without a result the browser fetcher is called
AfterHttpFirst ==
  /\ Quiet
  /\ http.pc = "returned"
  /\ http' = [http EXCEPT !.pc = "done",
                          !.next = IF http.outcome = "result" THEN "use_result"
                                   ELSE "browser"]
  /\ HttpFrame

InitHttp ==
  /\ InitService /\ scroll = NoScroll /\ keyed = NoTrack /\ matching = NoMatching
  /\ spfetch = NoFetch /\ admit = NoAdmit /\ library = NoLibrary /\ objects = NoObjects
  /\ page = NoPage /\ diag = NoDiag
  /\ store = NoStore /\ canon = NoCanon /\ capture = NoCapture
  /\ \E apple \in BOOLEAN : http = [NoHttp EXCEPT !.apple = apple, !.pc = "start"]

NextHttp ==
  \/ HttpBegin
  \/ \E answer \in GetAnswers : HttpGet(answer)
  \/ HttpParse
  \/ HttpTimeout
  \/ AfterHttpFirst

SpecHttp == InitHttp /\ [][NextHttp]_vars

StoreFrame ==
  UNCHANGED <<serviceVars, scroll, keyed, matching, spfetch, admit, library, objects, page,
              diag, http, canon, capture>>

\* Cache keys of four different requests.
StoreKeys ==
  {cache_key("spotify", SpotifyUrl, "", ""), cache_key("apple", AppleUrl, "0", "auto"),
   cache_key("apple", AppleUrl, "1", "auto"), cache_key("apple", AppleUrl, "0", "fast")}

\* Results that get_playlist writes back: no error, at least one track.
StoreResults ==
  {res \in {[NoResult EXCEPT !.by = "fetch", !.n = n] : n \in 1..2} :
     ShouldStore(FALSE, FALSE, res)}

LiveKeys(cache) == {cache[i].key : i \in {j \in 1..Len(cache) : cache[j].age < _TTL_SECONDS}}

\* app.py:325-326: PLAYLIST_CACHE[cache_key] = result.  gone collects the
\* keys whose unexpired entry the write removed.
StorePut(k, res) ==
  /\ Quiet
  /\ store.writes < MaxWrites
  /\ LET after == TTLCacheSet(store.cache, k, res, _TTL_SECONDS, MaxStore) IN
     store' = [store EXCEPT !.cache = after, !.writes = @ + 1,
                            !.gone = @ \cup (LiveKeys(store.cache) \ LiveKeys(after))]
  /\ StoreFrame

\* app.py:291: PLAYLIST_CACHE.get(cache_key)
StoreGet(k) ==
  /\ Quiet
  /\ store' = [store EXCEPT !.got = CacheGet(store.cache, k, _TTL_SECONDS)]
  /\ StoreFrame

\* d seconds pass; an expired entry stays in the cache's tables until the
\* next write purges it
StoreTick(d) ==
  /\ Quiet
  /\ store.ticks < MaxTicks
  /\ store' = [store EXCEPT !.cache = Aged(@, d), !.ticks = @ + 1]
  /\ StoreFrame

InitStore ==
  /\ InitService /\ scroll = NoScroll /\ keyed = NoTrack /\ matching = NoMatching
  /\ spfetch = NoFetch /\ admit = NoAdmit /\ library = NoLibrary /\ objects = NoObjects
  /\ page = NoPage /\ diag = NoDiag /\ http = NoHttp /\ canon = NoCanon /\ capture = NoCapture
  /\ store = NoStore

NextStore ==
  \/ \E k \in StoreKeys, res \in StoreResults : StorePut(k, res)
  \/ \E k \in StoreKeys : StoreGet(k)
  \/ \E d \in {WEB_CACHE_TTL, _TTL_SECONDS} : StoreTick(d)

SpecStore == InitStore /\ [][NextStore]_vars

Retrievable(cache, k) == CacheGet(cache, k, _TTL_SECONDS) # NoResult

\* The unexpired entry at position i is still retrievable after the step,
\* unless the step took it past its TTL.
StaysOrExpires(i) ==
  LET e == store.cache[i]
      elapsed == IF store'.ticks > store.ticks
                 THEN store'.cache[i].age - e.age ELSE 0
  IN \/ Retrievable(store'.cache, e.key)
     \/ e.age + elapsed >= _TTL_SECONDS

\* The step wrote a key that had no unexpired entry into a cache that held
\* maxsize unexpired entries, and the entry at position i was the oldest
\* of them.
PushedOut(i) ==
  /\ store'.writes = store.writes + 1
  /\ store'.cache[Len(store'.cache)].key \notin LiveKeys(store.cache)
  /\ Cardinality(LiveKeys(store.cache)) >= MaxStore
  /\ \A j \in 1..(i - 1) : store.cache[j].age >= _TTL_SECONDS

RaceInputs ==
  [source : {"spotify"}, url : {SpotifyUrl, AppleUrl}, apple_mode : {"auto"},
   enrich_spotify : {"None"}, refresh : {0}]

\* What one request does next, whatever it is.
Advance(r) == SpotifyFetch(r) \/ Step(r) \/ LockGranted(r) \/ Ack(r)

\* Two requests at a time.
NextRace ==
  \/ \E r \in Reqs : Start(r, 2, RaceInputs)
  \/ \E r \in Reqs : SpotifyFetch(r)
  \/ \E r \in Reqs : Step(r)
  \/ \E r \in Reqs : LockGranted(r)
  \/ \E r \in Reqs : Ack(r)

\* Every handler is a task of the event loop (or a worker thread of it):
\* the loop runs its ready tasks in turn, so a handler that is ready again
\* and again gets its turn, and the lock wakes its waiters in turn.
SpecRace == Init /\ [][NextRace]_vars /\ \A r \in Reqs : SF_vars(Advance(r))

EntriesFor(k) ==
  {i \in 1..Len(_PLAYLIST_CACHE) :
     _PLAYLIST_CACHE[i].key = k /\ _PLAYLIST_CACHE[i].age < _TTL_SECONDS}

\* Request r missed the cache and another request with the same cache key,
\* which missed as well, is in flight beside it.
Racing(r) ==
  /\ InFlight(r) /\ ~cache_hit[r] /\ ~p[r].bypass
  /\ \E s \in Reqs \ {r} :
        InFlight(s) /\ ~cache_hit[s] /\ ~p[s].bypass /\ KeyOf(p[s]) = KeyOf(p[r])

\* Request r waits for the one lock of the program, the lock around the
\* launch of the shared browser, and a launch is under way.
AwaitsLaunch(r) == pc[r] = "lockwait" /\ _lock # 0 /\ pc[_lock] \in {"starting", "launching"}

\* C32 -- benign cache race: of two identical concurrent requests that both
\* missed the cache, neither waits for the other's fetch (a request can
\* always take its next step, except while the shared browser is being
\* launched); each of them completes; and when one of them completes with a
\* result that is written back, the cache then holds exactly one entry for
\* the key, which is that result, also when the other one had written its
\* own result before.
C32_BenignRace ==
  /\ [](\A r \in Reqs : (Racing(r) /\ Quiet) => (ENABLED Advance(r) \/ AwaitsLaunch(r)))
  /\ \A r \in Reqs : Racing(r) ~> (pc[r] = "done")
  /\ [][\A r \in Reqs :
          (InFlight(r) /\ ~cache_hit[r] /\ pc'[r] = "done" /\ outcome'[r] = "ok"
             /\ ShouldStore(p[r].bypass, cache_hit[r], result'[r]))
          => /\ Cardinality({i \in 1..Len(_PLAYLIST_CACHE') :
                               _PLAYLIST_CACHE'[i].key = KeyOf(p[r])}) = 1
             /\ CacheGet(_PLAYLIST_CACHE', KeyOf(p[r]), _TTL_SECONDS) = result'[r]]_vars

\* A request that missed the cache is still fetching while the cache
\* already holds the result that an identical concurrent request, which had
\* missed as well, has written back.
C32_Witness ==
  \E r \in Reqs :
     /\ InFlight(r) /\ ~cache_hit[r] /\ ~p[r].bypass
     /\ EntriesFor(KeyOf(p[r])) # {}


\* ---------------------------------------------------------------------
\* Cache key canonicalization: core.normalize_playlist_url on the text of
\* a url (core.py:67-97), as get_playlist calls it (app.py:263-289).
\* A url is the sequence of its tokens: "https:", "//", a host, "/" and
\* path segments, "?", and query parameters between "&".
\* ---------------------------------------------------------------------

UrlSchemes == {"https:", "http:"}

\* The query parameters of the model: text, key, decoded value, and the
\* text urlencode writes for the pair.
Params ==
  {[text |-> "si=abc", key |-> "si", val |-> "abc", enc |-> "si=abc"],
   [text |-> "utm_source=x", key |-> "utm_source", val |-> "x", enc |-> "utm_source=x"],
   [text |-> "fbclid=1", key |-> "fbclid", val |-> "1", enc |-> "fbclid=1"],
   [text |-> "gclid=1", key |-> "gclid", val |-> "1", enc |-> "gclid=1"],
   [text |-> "l=en", key |-> "l", val |-> "en", enc |-> "l=en"],
   [text |-> "l=fr", key |-> "l", val |-> "fr", enc |-> "l=fr"],
   [text |-> "l=", key |-> "l", val |-> "", enc |-> "l="],
   [text |-> "q=a%20b", key |-> "q", val |-> "a b", enc |-> "q=a+b"],
   [text |-> "q=a+b", key |-> "q", val |-> "a b", enc |-> "q=a+b"]}
ParamOf(tok) == CHOOSE q \in Params : q.text = tok

\* k == "si" or k == "fbclid" or k == "gclid" or k.startswith("utm_")
IsTracking(k) == k \in {"si", "fbclid", "gclid"} \/ k \in {"utm_source"}

RECURSIVE SplitPath(_, _, _), JoinPath(_)
\* path.split("/")
SplitPath(toks, cur, acc) ==
  IF toks = <<>> THEN Append(acc, cur)
  ELSE IF Head(toks) = "/" THEN SplitPath(Tail(toks), "", Append(acc, cur))
  ELSE SplitPath(Tail(toks), Head(toks), acc)

\* "/".join(parts)
JoinPath(parts) ==
  IF parts = <<>> THEN <<>>
  ELSE LET h == IF Head(parts) = "" THEN <<>> ELSE <<Head(parts)>>
       IN IF Len(parts) = 1 THEN h ELSE h \o <<"/">> \o JoinPath(Tail(parts))

\* urllib.parse.urlparse on a url without fragment
urlparse(t) ==
  LET hasScheme == t # <<>> /\ Head(t) \in UrlSchemes
      r1 == IF hasScheme THEN Tail(t) ELSE t
      hasNet == r1 # <<>> /\ Head(r1) = "//"
      r2 == IF hasNet THEN Tail(r1) ELSE r1
      netTok == hasNet /\ r2 # <<>> /\ Head(r2) \notin {"/", "?"}
      r3 == IF netTok THEN Tail(r2) ELSE r2
      marks == {n \in 1..Len(r3) : r3[n] = "?"}
      cut == IF marks = {} THEN Len(r3) + 1 ELSE SetMin(marks)
  IN [scheme |-> IF hasScheme THEN Head(t) ELSE "",
      netloc |-> IF netTok THEN Head(r2) ELSE "",
      path |-> SubSeq(r3, 1, cut - 1),
      query |-> SubSeq(r3, cut + 1, Len(r3))]

\* {k: v for k, v in parse_qsl(query) if not tracking}: pairs with a blank
\* value are left out by parse_qsl; a key keeps the place of its first
\* pair and the value of its last one.  Then urlencode.
new_query(query) ==
  LET given(x) == x # "&" /\ ParamOf(x).val # "" /\ ~IsTracking(ParamOf(x).key)
      ps == SelectSeq(query, given)
      k(n) == ParamOf(ps[n]).key
      firsts == {n \in 1..Len(ps) : \A m \in 1..(n - 1) : k(m) # k(n)}
      last(n) == ps[SetMax({m \in 1..Len(ps) : k(m) = k(n)})]
      F[n \in 0..Len(ps)] ==
        IF n = 0 THEN <<>>
        ELSE IF n \in firsts
        THEN (IF F[n - 1] = <<>> THEN <<>> ELSE F[n - 1] \o <<"&">>)
             \o <<ParamOf(last(n)).enc>>
        ELSE F[n - 1]
  IN F[Len(ps)]

\* urllib.parse.urlunparse((scheme, netloc, path, "", query, ""))
urlunparse(scheme, netloc, path, query) ==
  LET url == IF path # <<>> /\ Head(path) # "/" THEN <<"/">> \o path ELSE path
      doubled == Len(path) >= 2 /\ path[1] = "/" /\ path[2] = "/"
      rooted == IF netloc # "" THEN <<"//", netloc>> \o url
                ELSE IF ~doubled THEN <<"//">> \o url ELSE path
  IN <<scheme>> \o rooted \o (IF query = <<>> THEN <<>> ELSE <<"?">> \o query)

\* if path.endswith("/"): path = path[:-1]
WithoutTrailingSlash(parts) ==
  IF Len(parts) >= 2 /\ parts[Len(parts)] = ""
  THEN SubSeq(parts, 1, Len(parts) - 1) ELSE parts

\* core.normalize_playlist_url (core.py:67-97) on the text of a url
normalize_playlist_url_text(url) ==
  LET s == StripTokens(url, {" "}) IN
  IF s = <<>> THEN <<>>
  ELSE LET parsed == urlparse(s)
           parts == SplitPath(parsed.path, "", <<>>)
           named == {n \in 2..(Len(parts) - 1) : parts[n] = "playlist"}
           idx == SetMin({n \in 1..Len(parts) : parts[n] = "playlist"})
           path == IF NamesSpotify(parsed.netloc) /\ named # {}
                   THEN <<"", "playlist", parts[idx + 1]>> ELSE parts
       IN urlunparse(IF parsed.scheme = "" THEN "https:" ELSE parsed.scheme,
                     parsed.netloc, JoinPath(WithoutTrailingSlash(path)),
                     new_query(parsed.query))

CanonFrame ==
  UNCHANGED <<serviceVars, scroll, keyed, matching, spfetch, admit, library, objects, page,
              diag, http, store, capture>>

\* app.py:262-289 for the n-th of the two requests: the normalized url and
\* the cache key made of it (source and mode as the url's host gives them)
Canonicalize(n) ==
  /\ Quiet
  /\ n \notin canon.done
  /\ LET clean_url == _sanitize_url(canon.urls[n])
         normalized_url == normalize_playlist_url_text(clean_url)
         src == IF NamesApple(clean_url) THEN "apple" ELSE "spotify"
     IN canon' = [canon EXCEPT
          !.done = @ \cup {n},
          !.out = [@ EXCEPT ![n] = normalized_url],
          !.keys = [@ EXCEPT ![n] = cache_key(src, normalized_url, "0", "auto")]]
  /\ CanonFrame

\* normalize_playlist_url on the url it has returned for the n-th request
CanonicalizeAgain(n) ==
  /\ Quiet
  /\ n \in canon.done /\ canon.again[n] = <<"none">>
  /\ canon' = [canon EXCEPT !.again = [@ EXCEPT ![n] = normalize_playlist_url_text(canon.out[n])]]
  /\ CanonFrame

TrackingParams == {"si=abc", "utm_source=x", "fbclid=1", "gclid=1"}
OtherParams == {"l=en", "l=fr", "l=", "q=a%20b"}

RECURSIVE Slashes(_)
Slashes(n) == IF n = 0 THEN <<>> ELSE <<"/">> \o Slashes(n - 1)

RECURSIVE QueryText(_)
QueryText(params) ==
  IF params = <<>> THEN <<>>
  ELSE IF Len(params) = 1 THEN <<"?", params[1]>>
  ELSE QueryText(SubSeq(params, 1, Len(params) - 1)) \o <<"&", params[Len(params)]>>

\* The text of a playlist url: host, segments before and after
\* /playlist/<id>, trailing slashes, query parameters.
UrlText(u) ==
  <<"https:", "//", u.host>>
  \o (IF u.before = "" THEN <<>> ELSE <<"/", u.before>>)
  \o <<"/", "playlist", "/", u.id>>
  \o (IF u.after = "" THEN <<>> ELSE <<"/", u.after>>)
  \o Slashes(u.slashes) \o QueryText(u.params)

\* Playlist urls: Spotify urls with or without a locale segment, an Apple
\* url with its storefront segment.
PlaylistUrls ==
  [host : {"open.spotify.com"}, before : {"", "intl-ja"}, id : {RawId}, after : {""},
   slashes : 0..MaxSlashes, params : UNION {[1..n -> OtherParams] : n \in 0..MaxParams}]
  \cup [host : {"music.apple.com"}, before : {"us"}, id : {"pl.abc"}, after : {""},
         slashes : 0..MaxSlashes, params : UNION {[1..n -> OtherParams] : n \in 0..MaxParams}]

\* The urls that differ from u only in a tracking parameter, in a trailing
\* slash, or in a path segment around /playlist/<id> of a Spotify url.
Variants(u) ==
  {[kind |-> "tracking", url |-> [u EXCEPT !.params = Append(@, t)]] : t \in TrackingParams}
  \cup {[kind |-> "tracking", url |-> [u EXCEPT !.params = <<t>> \o @]] : t \in TrackingParams}
  \cup {[kind |-> "slash", url |-> [u EXCEPT !.slashes = @ + 1]]}
  \cup (IF u.host = "open.spotify.com" /\ u.slashes = 0
        THEN {[kind |-> "segment", url |-> [u EXCEPT !.after = "extra"]],
              [kind |-> "segment", url |-> [u EXCEPT !.before = "embed"]]}
        ELSE {})

InitCanon ==
  /\ InitService /\ scroll = NoScroll /\ keyed = NoTrack /\ matching = NoMatching
  /\ spfetch = NoFetch /\ admit = NoAdmit /\ library = NoLibrary /\ objects = NoObjects
  /\ page = NoPage /\ diag = NoDiag /\ http = NoHttp /\ store = NoStore /\ capture = NoCapture
  /\ \E u \in PlaylistUrls : \E v \in Variants(u) :
       canon = [NoCanon EXCEPT !.urls = <<UrlText(u), UrlText(v.url)>>, !.kind = v.kind]

NextCanon == (\E n \in 1..2 : Canonicalize(n)) \/ (\E n \in 1..2 : CanonicalizeAgain(n))

SpecCanon == InitCanon /\ [][NextCanon]_vars

\* The non-tracking parameters of a url text, and whether the pair of one
\* of them is in another url text.
PlainParams(t) ==
  {t[n] : n \in {m \in 1..Len(t) : t[m] \in {q.text : q \in Params}
                                     /\ ~IsTracking(ParamOf(t[m]).key)}}
KeptIn(tok, t) ==
  \E n \in 1..Len(t) :
     /\ t[n] \in {q.text : q \in Params}
     /\ ParamOf(t[n]).key = ParamOf(tok).key /\ ParamOf(t[n]).val = ParamOf(tok).val

\* C33 -- cache key canonicalization: normalize_playlist_url gives its own
\* output back unchanged; two urls that differ only in a tracking
\* parameter, a trailing slash or a path segment around a Spotify
\* /playlist/<id> get the same normalized url and so the same cache key;
\* and every non-tracking query parameter of a url is in its normalized url.
C33_KeyCanonicalization ==
  /\ \A n \in 1..2 : canon.again[n] # <<"none">> => canon.again[n] = canon.out[n]
  /\ canon.done = {1, 2} =>
       (canon.out[1] = canon.out[2] /\ canon.keys[1] = canon.keys[2])
  /\ \A n \in canon.done :
       \A tok \in PlainParams(canon.urls[n]) : KeptIn(tok, canon.out[n])


\* ---------------------------------------------------------------------
\* Inverted naming in the library index (normalizer.py:84-115,
\* parser.py:122-125), specification SpecMatching
\* ---------------------------------------------------------------------

\* A title of the shape "Artist - Title": something, a dash, something.
\* dash is the place of the first dash that has something on its left.
DashOf(s) == {k \in 2..(Len(s) - 1) : s[k] = "-" /\ Strip(SubSeq(s, 1, k - 1)) # <<>>}
LeftPart(s) == Strip(SubSeq(s, 1, SetMin(DashOf(s)) - 1))
RightPart(s) == Strip(SubSeq(s, SetMin(DashOf(s)) + 1, Len(s)))
ArtistTitleShaped(s) == DashOf(s) # {} /\ RightPart(s) # <<>>

IndexedUnder(n, key) ==
  \E i \in 1..Len(by_title_artist(matching.lib, key)) :
     by_title_artist(matching.lib, key)[i] = n

\* The swapped and the plain reading of library track rb.
SwappedPair(rb) ==
  <<normalize_title_base(RightPart(Strip(rb.title))),
    normalize_artist(LeftPart(Strip(rb.title)))>>
PlainPair(rb) == <<normalize_title_base(Strip(rb.title)), normalize_artist(Strip(rb.artist))>>

\* The playlist track has the right part as its title and the left part as
\* its artist.
NamedBy(t, rb) ==
  /\ Strip(t.title) = RightPart(Strip(rb.title))
  /\ Strip(t.artist) = LeftPart(Strip(rb.title))

\* C34 -- inverted naming in the library index: a library track whose title
\* has the shape "Artist - Title" is indexed in by_title_artist under its
\* plain pair and under the swapped pair (normalized right part, normalized
\* left part), each pair with two non-empty parts; and a playlist track
\* that has the right part as title and the left part as artist, and that
\* the ISRC stage has not matched already, is owned with method exact, by
\* the first library track indexed under the swapped pair.
C34_InvertedNaming ==
  matching.out.judged /\ matching # NoMatching =>
    \A n \in 1..Len(matching.lib) :
       LET rb == matching.lib[n] IN
       ArtistTitleShaped(Strip(rb.title)) =>
         /\ (PlainPair(rb)[1] # <<>> /\ PlainPair(rb)[2] # <<>>)
              => IndexedUnder(n, PlainPair(rb))
         /\ (SwappedPair(rb)[1] # <<>> /\ SwappedPair(rb)[2] # <<>>)
              => /\ IndexedUnder(n, SwappedPair(rb))
                 /\ (NamedBy(matching.track, rb) /\ ~InLibrary(SameIsrc))
                      => /\ matching.out.owned /\ matching.out.method = "exact"
                         /\ matching.out.rb_track =
                              by_title_artist(matching.lib, SwappedPair(rb))[1]

\* A playlist track is owned with method exact by a library track that is
\* named "Artist - Title" and whose own artist field names someone else:
\* only the swapped reading finds it.
C34_Witness ==
  /\ matching.out.judged /\ matching.out.method = "exact"
  /\ LET rb == matching.lib[matching.out.rb_track] IN
     /\ ArtistTitleShaped(Strip(rb.title))
     /\ NamedBy(matching.track, rb)
     /\ normalize_artist(Strip(rb.artist)) # normalize_artist(matching.track.artist)


\* ---------------------------------------------------------------------
\* Failed loads of a library file (specification SpecLibrary)
\* ---------------------------------------------------------------------

LoadErrors == {"FileNotFoundError", "OverflowError", "TimeoutError", "ValueError"}

\* The step ends a load.
LoadReturns == library.pc # "done" /\ library'.pc = "done"

\* An earlier load of the file that is being loaded has failed.
FailedBefore == \E f \in library.failed : f.file = library.file

\* A failed load leaves the library cache as it was.
FailureCachesNothing ==
  (LoadReturns /\ library'.outcome \in LoadErrors)
    => library'._rekordbox_cache = library._rekordbox_cache

\* C35 -- structural error on a malformed library: a load of a
\* document without COLLECTION ends with an error, the structural error
\* when the document was parsed in time; a failed load leaves the library
\* cache unchanged; and a later load of a file whose load has failed
\* fails again.
C35_FailedLoadFailsAgain ==
  [][/\ (LoadReturns /\ library.file.exists /\ ~library.file.collection)
          => /\ library'.outcome \in LoadErrors
             /\ library'.parsed => library'.outcome \in {"ValueError", "TimeoutError"}
     /\ FailureCachesNothing
     /\ (LoadReturns /\ FailedBefore) => library'.outcome \in LoadErrors]_vars

\* ---------------------------------------------------------------------
\* The annotation of a track (specification SpecMatching)
\* ---------------------------------------------------------------------

MatchMethods == {"isrc", "exact", "album", "fuzzy"}

\* matcher.py:132-135: what the track carries after the loop body.  The
\* match detail is the empty dict or has all five keys; owned_reason is
\* owned_detail.get("method"), "none" standing for None.
Annotated(out, lib) ==
  [owned |-> out.owned,
   owned_detail |->
     IF out.method = "none" THEN <<>>
     ELSE <<[method |-> out.method, score |-> out.score,
             matched_title |-> Strip(lib[out.rb_track].title),
             matched_artist |-> Strip(lib[out.rb_track].artist),
             rb_track |-> out.rb_track]>>,
   owned_reason |-> IF out.method = "none" THEN "none" ELSE out.method]

\* C36 -- owned annotation invariant: a judged track carries owned and
\* owned_reason; it is owned if and only if owned_reason is one of isrc,
\* exact, album, fuzzy and a match detail with the title and artist of a
\* library track is attached; the score is 1.0 for isrc, exact and album
\* and lies in [0.92, 1] for fuzzy; a track that is not owned has no
\* owned_reason and an empty match detail.
C36_OwnedAnnotation ==
  matching.out.judged /\ matching # NoMatching =>
    LET t == Annotated(matching.out, matching.lib)
        detailed == /\ t.owned_detail # <<>>
                    /\ \E n \in 1..Len(matching.lib) :
                         /\ t.owned_detail[1].matched_title = Strip(matching.lib[n].title)
                         /\ t.owned_detail[1].matched_artist = Strip(matching.lib[n].artist)
    IN /\ t.owned \in BOOLEAN
       /\ t.owned_reason \in MatchMethods \cup {"none"}
       /\ t.owned <=> (t.owned_reason \in MatchMethods /\ detailed)
       /\ t.owned_reason \in {"isrc", "exact", "album"} => t.owned_detail[1].score = <<1, 1>>
       /\ t.owned_reason = "fuzzy" =>
            /\ AtLeast(t.owned_detail[1].score, FuzzyThreshold)
            /\ AtLeast(<<1, 1>>, t.owned_detail[1].score)
       /\ ~t.owned => t.owned_reason = "none" /\ t.owned_detail = <<>>

\* A track owned by a close title: the match detail names a library track
\* of another title, with a score below 1.
C36_Witness ==
  /\ matching.out.judged /\ matching.out.owned
  /\ Annotated(matching.out, matching.lib).owned_reason = "fuzzy"
  /\ Above(<<1, 1>>, Annotated(matching.out, matching.lib).owned_detail[1].score)
  /\ Annotated(matching.out, matching.lib).owned_detail[1].matched_title
       # matching.track.title

\* ---------------------------------------------------------------------
\* The two modules' mark_owned_tracks on one playlist track and one
\* library file (specification SpecAgree).  matching has three more
\* fields here: size, the size of the library file in MB; top, what
\* rekordbox.mark_owned_tracks has written on the track; raised, the
\* exception lib.rekordbox.matcher.mark_owned_tracks has ended with.
\* The normalizers and the index building of rekordbox.py:20-125, 196-236
\* are those of lib/rekordbox (normalizer.py:10-115, parser.py:92-134)
\* line for line, so the same operators stand for both.
\* ---------------------------------------------------------------------

NoTop == [owned |-> FALSE, owned_reason |-> "none", judged |-> FALSE]

\* rekordbox.py:266-309: the body of the loop for one track t
owned_reason(t, lib) ==
  LET title_norm == normalize_title_base(t.title)
      artist_norm == normalize_artist(t.artist)
      album_norm == normalize_album(t.album)
      candidates == by_artist_norm(lib, artist_norm)
      scores == [n \in 1..Len(candidates) |->
                   _similar(title_norm, normalize_title_base(Strip(lib[candidates[n]].title)))]
      best == BestOf(scores)[1]
      reason ==
        IF Truthy(t.isrc) /\ by_isrc(lib, Upper(t.isrc)) # 0 THEN "isrc"
        ELSE IF /\ title_norm # <<>> /\ artist_norm # <<>>
                /\ by_title_artist(lib, <<title_norm, artist_norm>>) # <<>> THEN "exact"
        ELSE IF /\ title_norm # <<>> /\ album_norm # <<>>
                /\ by_title_album(lib, <<title_norm, album_norm>>) # <<>> THEN "album"
        ELSE IF /\ title_norm # <<>> /\ artist_norm # <<>>
                /\ AtLeast(best, FuzzyThreshold) THEN "fuzzy"
        ELSE "none"
  IN [owned |-> reason # "none", owned_reason |-> reason, judged |-> TRUE]

\* rekordbox.mark_owned_tracks (rekordbox.py:251-311): its loader parses a
\* file of any size (rekordbox.py:167-238), then the track is judged.
MarkOwnedTop ==
  /\ ~matching.top.judged
  /\ matching' = [matching EXCEPT !.top = owned_reason(matching.track, matching.lib)]
  /\ UNCHANGED <<serviceVars, scroll, keyed, spfetch, admit, library, objects, page, diag, http, store, canon, capture>>

\* lib.rekordbox.matcher.mark_owned_tracks (matcher.py:30-147): its loader
\* raises for a file above the limit (parser.py:58-66) and for a parse
\* that took too long (parser.py:83-84); otherwise the track is judged.
MarkOwnedLib(slow) ==
  /\ ~matching.out.judged /\ matching.raised = "none"
  /\ IF matching.size > MAX_XML_SIZE_MB
     THEN matching' = [matching EXCEPT !.raised = "OverflowError"]
     ELSE IF slow
     THEN matching' = [matching EXCEPT !.raised = "TimeoutError"]
     ELSE matching' = [matching EXCEPT !.out = owned_detail(matching.track, matching.lib)]
  /\ UNCHANGED <<serviceVars, scroll, keyed, spfetch, admit, library, objects, page, diag, http, store, canon, capture>>

InitAgree ==
  /\ InitService /\ scroll = NoScroll /\ keyed = NoTrack /\ spfetch = NoFetch /\ admit = NoAdmit /\ library = NoLibrary /\ objects = NoObjects /\ page = NoPage /\ diag = NoDiag /\ http = NoHttp /\ store = NoStore /\ canon = NoCanon /\ capture = NoCapture
  /\ matching \in [track : PlaylistTrackInputs, lib : Tuples(LibraryTrackInputs, MaxLib),
                   out : {NoOwned}, size : FileSizes, top : {NoTop}, raised : {"none"}]

NextAgree == MarkOwnedTop \/ (\E slow \in BOOLEAN : MarkOwnedLib(slow))

SpecAgree == InitAgree /\ [][NextAgree]_vars

\* C37 -- the two matcher implementations agree: when both have run on
\* the same playlist track and the same library file, both have written
\* an owned flag and an owned_reason on the track, and the same ones.
C37_MatchersAgree ==
  (matching.top.judged /\ (matching.out.judged \/ matching.raised # "none")) =>
    /\ matching.out.judged
    /\ matching.top.owned = matching.out.owned
    /\ matching.top.owned_reason = matching.out.method

\* ---------------------------------------------------------------------
\* Failure isolation in the browser pool (specification SpecPool)
\* ---------------------------------------------------------------------

\* The step is the reset after request r's first failed attempt to create
\* a context (playwright_pool.py:111-114).
ResetBy(r) == attempt[r] = 1 /\ attempt'[r] = 2

\* C38 -- failure isolation in the browser pool: the reset that follows a
\* context-creation failure of one request never closes a browser on which
\* another in-flight request holds an open context; and a call of
\* new_context makes at most two attempts: after a failed second attempt
\* the request does not ask for a browser again within the same strategy.
C38_FailureIsolation ==
  [][\A r \in Reqs :
       /\ ResetBy(r) =>
            \A c \in contexts :
               (c.owner # r /\ InFlight(c.owner)) => (c.browser \in alive' /\ c \in contexts')
       /\ attempt'[r] \in {0, 1, 2}
       /\ (attempt[r] = 2 /\ pc[r] \in {"nc", "launching"} /\ pc'[r] = "gb")
            => strat'[r] # strat[r]]_vars

\* ---------------------------------------------------------------------
\* The response listener of a strategy run (core.py:830-872, registered by
\* page.on("response", on_response_handler) at core.py:977 and 1582).  Each
\* response starts a task that runs on_response_handler; the task is
\* suspended at `await response.json()` and other tasks run meanwhile.
\* handlers lists the tasks in the order of their responses;
\* api_response_captured is 0 for None, else the number of the task whose
\* response it holds.  Specification SpecCapture.
\* ---------------------------------------------------------------------

\* A response: whether its url names an Apple host, whether it has
\* "catalog" and "playlists" in it, its status, whether its content type
\* has application/json, and what response.json() gives.
Responses ==
  {[apple |-> TRUE, catalog_playlists |-> TRUE, status |-> 200, json |-> TRUE, body |-> b] :
     b \in {"dict", "empty", "raises"}}
  \cup {[apple |-> TRUE, catalog_playlists |-> TRUE, status |-> 404, json |-> TRUE,
         body |-> "dict"],
        [apple |-> TRUE, catalog_playlists |-> TRUE, status |-> 200, json |-> FALSE,
         body |-> "raises"],
        [apple |-> FALSE, catalog_playlists |-> FALSE, status |-> 200, json |-> TRUE,
         body |-> "dict"]}

Capped(n) == IF n < DIAG_CAP THEN n + 1 ELSE n

\* core.py:830-860: a response arrives and its task runs up to the read of
\* the body.  The task ends at once for a response that is not a 200 JSON
\* response of the catalog-playlist API, and for one that arrives when a
\* response has been captured (line 857).
OnResponse(response) ==
  /\ capture.pc = "waiting"
  /\ Len(capture.handlers) < MaxResponses
  /\ LET wanted == /\ response.catalog_playlists /\ response.status = 200 /\ response.json
                   /\ capture.api_response_captured = 0
     IN capture' = [capture EXCEPT
          !.lists = <<IF response.apple THEN Capped(@[1]) ELSE @[1],
                      IF response.json THEN Capped(@[2]) ELSE @[2],
                      IF response.catalog_playlists THEN Capped(@[3]) ELSE @[3]>>,
          !.seen_catalog_playlist_api = @ \/ response.catalog_playlists,
          !.handlers = Append(@, [response |-> response,
                                  pc |-> IF wanted THEN "reading" ELSE "done"])]
  /\ UNCHANGED <<serviceVars, scroll, keyed, matching, spfetch, admit, library, objects, page, diag, http, store, canon>>

\* core.py:860-870: the body of task n's response has been read; a
\* non-empty dict is stored, anything else and an exception are dropped.
BodyRead(n) ==
  /\ n \in 1..Len(capture.handlers)
  /\ capture.handlers[n].pc = "reading"
  /\ capture' = [capture EXCEPT
       !.handlers[n].pc = "done",
       !.api_response_captured = IF capture.handlers[n].response.body = "dict" THEN n ELSE @,
       !.assigned = IF capture.handlers[n].response.body = "dict" THEN @ + 1 ELSE @]
  /\ UNCHANGED <<serviceVars, scroll, keyed, matching, spfetch, admit, library, objects, page, diag, http, store, canon>>

\* core.py:1307-1317, 1879-1888: the strategy stops waiting, because a
\* response is captured or because the wait has timed out, and takes the
\* body of the captured response.
TakeCaptured ==
  /\ capture.pc = "waiting"
  /\ capture' = [capture EXCEPT !.pc = "done", !.body = capture.api_response_captured]
  /\ UNCHANGED <<serviceVars, scroll, keyed, matching, spfetch, admit, library, objects, page, diag, http, store, canon>>

InitCapture ==
  /\ InitService /\ scroll = NoScroll /\ keyed = NoTrack /\ matching = NoMatching
  /\ spfetch = NoFetch /\ admit = NoAdmit /\ library = NoLibrary /\ objects = NoObjects
  /\ page = NoPage /\ diag = NoDiag /\ http = NoHttp /\ store = NoStore /\ canon = NoCanon
  /\ capture = [NoCapture EXCEPT !.pc = "waiting"]

NextCapture ==
  \/ \E response \in Responses : OnResponse(response)
  \/ \E n \in 1..MaxResponses : BodyRead(n)
  \/ TakeCaptured

SpecCapture == InitCapture /\ [][NextCapture]_vars

\* C39 -- first captured API response wins: within one strategy run the
\* captured response is set at most once, and once a response has been
\* captured no step of any response task replaces it.
C39_FirstCaptureWins ==
  [][/\ capture'.assigned <= 1
     /\ capture.api_response_captured # 0
          => capture'.api_response_captured = capture.api_response_captured]_vars

\* ---------------------------------------------------------------------
\* The items of the direct-API fetcher (specification SpecFetch)
\* ---------------------------------------------------------------------

\* The items of the pages among the first n answers, in the order of the
\* answers.
ItemsOfPages(r, n) ==
  LET F[k \in 0..n] ==
        IF k = 0 THEN <<>>
        ELSE IF r[k][2] = 200
        THEN F[k - 1] \o [i \in 1..r[k][3] |-> <<r[k][1], k, i>>]
        ELSE F[k - 1]
  IN F[n]

\* C40 -- single-market result: the items the fetcher returns all come
\* from the pages of one market; no page of a market whose request failed
\* afterwards is among the answers of a call that returns; the last page
\* names no next page and every page before it does; and the items are
\* those of each page exactly once, in page order.
C40_SingleMarketResult ==
  LET r == spfetch.responses
      last == Len(r)
  IN (spfetch.pc = "done" /\ spfetch.outcome = "ok") =>
       /\ last >= 1 /\ r[last][2] = 200 /\ ~r[last][4]
       /\ \A i \in 1..Len(spfetch.items) : spfetch.items[i][1] = r[last][1]
       /\ \A n \in 1..last :
            r[n][2] = 200 => /\ r[n][1] = r[last][1]
                             /\ \A k \in n..last : r[k][2] = 200
                             /\ n < last => r[n][4]
       /\ spfetch.items = ItemsOfPages(r, last)

\* The first market refused with 403, the second gave a page with an item
\* and a next page, then a last page with an item: two items are returned.
C40_Witness ==
  /\ spfetch.pc = "done" /\ spfetch.outcome = "ok"
  /\ Len(spfetch.responses) = 3
  /\ spfetch.responses[1] = <<1, 403, 0, FALSE>>
  /\ spfetch.responses[2] = <<2, 200, 1, TRUE>>
  /\ spfetch.items = <<<<2, 2, 1>>, <<2, 3, 1>>>>

====
